---- MODULE Spec2Model ----
(***************************************************************************)
(* Model of the data-tidy core: the schema engine (src/lib/schemaEngine.ts) *)
(* and the cleaning pipeline (src/lib/dataCleaner.ts with the profiler of   *)
(* src/lib/dataAnalyzer.ts).                                                *)
(*                                                                         *)
(* Strings are sequences of one-character strings, so that trimming,       *)
(* lower-casing, normalisation and parsing are computed, not assumed.      *)
(* Numbers are integers in hundredths (1234.56 is 123456): every number    *)
(* the modelled inputs produce has at most two decimals.                   *)
(***************************************************************************)
EXTENDS Integers, Sequences, FiniteSets, TLC

VARIABLES
  \* validateSchema
  vpc,          \* "idle" | "loop" | "done"
  vSource,      \* sourceColumns
  vSchema,      \* targetSchema.columns
  vIdx,         \* position of the outer for-loop over sourceColumns
  vMappings,    \* mappings
  vMatched,     \* matchedTargets
  vResult,      \* the SchemaValidationResult once returned
  \* the runtime's time zone (see Dates)
  tz,
  \* transformData
  tpc,          \* "idle" | "loop" | "done"
  tData,        \* data
  tSchema,      \* targetSchema.columns
  tMap,         \* Object.entries(confirmedMappings): <<[src, tgt], ...>>
  tIdx,         \* the loop index i (from 1)
  xf,           \* the accumulators of the loop: seen, successRows, errorRows, ...
  tResult,      \* the TransformationResult once returned
  \* autoTransform
  apc,          \* "idle" | "start" | "called"
  aGiven,       \* the targetSchema argument, or its absence
  aValidation,  \* validationResult
  \* stringSimilarity
  spc,          \* "idle" | "start" | "done"
  sA, sB,       \* the arguments a and b
  sOut,         \* what the calls returned
  \* parseMultiFormatDate
  dpc,          \* "idle" | "start" | "done"
  dIn,          \* the argument, a string
  dOut,         \* what the call returned
  \* a call of one of the other functions that read no state
  ppc,          \* "idle" | "start" | "done"
  pFn,          \* the function called
  pArg,         \* its argument
  pOut,         \* what the call returned
  \* cleanWithGroq, callGroqWithRetry
  gpc,          \* "idle" | "start" | "fetching" | "backoff" | "between" | "resolved"
  gData,        \* data, the argument
  gKey,         \* whether import.meta.env.VITE_GROQ_API_KEY is set
  gIdx,         \* the loop index i (from 1)
  gRetry,       \* retryCount of the running callGroqWithRetry
  gTrace,       \* the requests sent, their responses and the timers set, in order
  gCleaned,     \* allCleaned
  gErrorLog,    \* errorLog
  gFailed,      \* failedRows
  gEvents,      \* the calls of onProgress, in order
  gResult,      \* what the promise resolved to
  \* cleanDataAdvanced
  today,        \* new Date(): the time of the call
  cpc,          \* the step the call is at, "idle" | "start" | "trim" | ... | "done"
  cConfig,      \* fullConfig
  cInput,       \* data, the argument, as it is at the call
  cCaller,      \* the caller's row objects, as they are now
  cOwner,       \* for each row of cleanedData: the caller's row it is, or 0
  cData,        \* cleanedData
  cProfiles,    \* columnProfiles
  cActions,     \* actions
  cDerived,     \* derivedColumns
  cResult,      \* the EnhancedCleaningResult once returned
  cPass,        \* 1 for a call on the input, 2 for the call on the first call's data
  cFirst        \* the result of the first call

vVars == <<vpc, vSource, vSchema, vIdx, vMappings, vMatched, vResult>>
tVars == <<tpc, tData, tSchema, tMap, tIdx, xf, tResult>>
cVars == <<today, cpc, cConfig, cInput, cCaller, cOwner, cData, cProfiles, cActions, cDerived, cResult,
           cPass, cFirst>>
aVars == <<apc, aGiven, aValidation>>
sVars == <<spc, sA, sB, sOut>>
dVars == <<dpc, dIn, dOut>>
pVars == <<ppc, pFn, pArg, pOut>>
gVars == <<gpc, gData, gKey, gIdx, gRetry, gTrace, gCleaned, gErrorLog, gFailed, gEvents,
           gResult>>
vars == <<tz, vVars, tVars, aVars, sVars, dVars, pVars, gVars, cVars>>
\* what a step of validateSchema, of transformData, of cleanDataAdvanced leaves alone
NotValidate == <<tz, tVars, aVars, sVars, dVars, pVars, gVars, cVars>>
NotTransform == <<vVars, aVars, sVars, dVars, pVars, gVars, cVars>>
NotClean == <<tz, vVars, tVars, aVars, sVars, dVars, pVars, gVars, today, cConfig, cInput, cPass,
              cFirst>>

(***************************************************************************)
(* Characters and strings                                                  *)
(***************************************************************************)
UpperChars == <<"A","B","C","D","E","F","G","H","I","J","K","L","M",
                "N","O","P","Q","R","S","T","U","V","W","X","Y","Z">>
LowerChars == <<"a","b","c","d","e","f","g","h","i","j","k","l","m",
                "n","o","p","q","r","s","t","u","v","w","x","y","z">>
DigitChars == <<"0","1","2","3","4","5","6","7","8","9">>

Range(s) == {s[i] : i \in DOMAIN s}

IsUpper(c) == c \in Range(UpperChars)
IsLower(c) == c \in Range(LowerChars)
IsDigit(c) == c \in Range(DigitChars)
IsSpace(c) == c = " "

\* String.prototype.toLowerCase, one character
toLowerChar(c) ==
  IF IsUpper(c) THEN LowerChars[CHOOSE i \in DOMAIN UpperChars : UpperChars[i] = c]
  ELSE c

\* String.prototype.toUpperCase, one character
toUpperChar(c) ==
  IF IsLower(c) THEN UpperChars[CHOOSE i \in DOMAIN LowerChars : LowerChars[i] = c]
  ELSE c

toLowerCase(s) == [i \in DOMAIN s |-> toLowerChar(s[i])]

DigitVal(c) == (CHOOSE i \in DOMAIN DigitChars : DigitChars[i] = c) - 1

\* the characters of s that satisfy keep, in order
FilterChars(s, keepSet) == SelectSeq(s, LAMBDA c : c \in keepSet)

AlnumLower == Range(LowerChars) \cup Range(DigitChars)

\* String.prototype.trim (the only white space of the model is the blank)
RECURSIVE TrimLeft(_)
TrimLeft(s) == IF s # <<>> /\ IsSpace(Head(s)) THEN TrimLeft(Tail(s)) ELSE s

RECURSIVE TrimRight(_)
TrimRight(s) ==
  IF s # <<>> /\ IsSpace(s[Len(s)]) THEN TrimRight(SubSeq(s, 1, Len(s) - 1)) ELSE s

trim(s) == TrimRight(TrimLeft(s))

\* s.replace(/\s+/g, ' ')
RECURSIVE CollapseSpaces(_)
CollapseSpaces(s) ==
  IF Len(s) < 2 THEN s
  ELSE IF IsSpace(s[1]) /\ IsSpace(s[2]) THEN CollapseSpaces(Tail(s))
  ELSE <<Head(s)>> \o CollapseSpaces(Tail(s))

\* s.replace(/,/g, '')
RECURSIVE RemoveCommas(_)
RemoveCommas(s) ==
  IF s = <<>> THEN <<>>
  ELSE IF Head(s) = "," THEN RemoveCommas(Tail(s))
  ELSE <<Head(s)>> \o RemoveCommas(Tail(s))

Max(a, b) == IF a >= b THEN a ELSE b
Min(a, b) == IF a <= b THEN a ELSE b
Abs(a) == IF a < 0 THEN -a ELSE a

\* Math.round(p / q) for q > 0: the nearest integer, halves towards +infinity
RoundDiv(p, q) == (2 * p + q) \div (2 * q)

(***************************************************************************)
(* JavaScript values: null, undefined, strings, numbers, booleans          *)
(***************************************************************************)
\* one shape for every value: k is the type tag, s the characters of a
\* string, n a number in hundredths (or 1/0 for true/false)
Null == [k |-> "null", s |-> <<>>, n |-> 0]
Undefined == [k |-> "undef", s |-> <<>>, n |-> 0]
Str(chars) == [k |-> "str", s |-> chars, n |-> 0]
NumC(centi) == [k |-> "num", s |-> <<>>, n |-> centi]
Bool(b) == [k |-> "bool", s |-> <<>>, n |-> IF b THEN 1 ELSE 0]
\* Number of whole units
Num(units) == NumC(units * 100)

\* the UTF-16 order of the characters the model uses
CharOrder == <<" ", ",", "-", ".", "/">> \o DigitChars \o <<":">> \o UpperChars
             \o <<"_">> \o LowerChars \o <<"|">>
CharCode(c) == CHOOSE i \in DOMAIN CharOrder : CharOrder[i] = c

\* a < b for strings, as Array.prototype.sort() compares them
RECURSIVE StrLess(_, _)
StrLess(a, b) ==
  IF b = <<>> THEN FALSE
  ELSE IF a = <<>> THEN TRUE
  ELSE IF Head(a) = Head(b) THEN StrLess(Tail(a), Tail(b))
  ELSE CharCode(Head(a)) < CharCode(Head(b))

RECURSIVE NatToStr(_)
NatToStr(n) ==
  IF n < 10 THEN <<DigitChars[n + 1]>>
  ELSE NatToStr(n \div 10) \o <<DigitChars[(n % 10) + 1]>>

\* String(x) of a number kept in hundredths
NumToStr(centi) ==
  LET a == Abs(centi)
      whole == NatToStr(a \div 100)
      frac == a % 100
      fracStr == IF frac = 0 THEN <<>>
                 ELSE IF frac % 10 = 0 THEN <<".", DigitChars[(frac \div 10) + 1]>>
                 ELSE <<".", DigitChars[(frac \div 10) + 1], DigitChars[(frac % 10) + 1]>>
  IN (IF centi < 0 THEN <<"-">> ELSE <<>>) \o whole \o fracStr

s_true == <<"t","r","u","e">>
s_false == <<"f","a","l","s","e">>
s_null == <<"n","u","l","l">>
s_undefined == <<"u","n","d","e","f","i","n","e","d">>

\* String(value)
ToStr(v) ==
  CASE v.k = "str" -> v.s
    [] v.k = "num" -> NumToStr(v.n)
    [] v.k = "bool" -> IF v.n = 1 THEN s_true ELSE s_false
    [] v.k = "null" -> s_null
    [] OTHER -> s_undefined

\* the digits of s as a natural number
RECURSIVE DigitsVal(_, _)
DigitsVal(s, acc) ==
  IF s = <<>> THEN acc ELSE DigitsVal(Tail(s), acc * 10 + DigitVal(Head(s)))

AllDigits(s) == \A i \in DOMAIN s : IsDigit(s[i])

NaN == [ok |-> FALSE, n |-> 0]

\* Number(str) for the decimal literals of the model: white space is trimmed,
\* the empty string is 0, then [+-] digits [. digits] with at most two decimals
\* (no exponent, hexadecimal or Infinity literal occurs in the inputs)
StrToNumber(str) ==
  LET t == trim(str)
      signed == t # <<>> /\ t[1] \in {"+", "-"}
      body == IF signed THEN Tail(t) ELSE t
      dots == {i \in DOMAIN body : body[i] = "."}
      dot == IF dots = {} THEN Len(body) + 1 ELSE CHOOSE i \in dots : \A j \in dots : i <= j
      whole == SubSeq(body, 1, dot - 1)
      frac == SubSeq(body, dot + 1, Len(body))
      fracVal == IF Len(frac) = 0 THEN 0
                 ELSE IF Len(frac) = 1 THEN DigitVal(frac[1]) * 10
                 ELSE DigitsVal(frac, 0)
      mag == DigitsVal(whole, 0) * 100 + fracVal
  IN IF t = <<>> THEN [ok |-> TRUE, n |-> 0]
     ELSE IF /\ Cardinality(dots) <= 1
             /\ AllDigits(whole) /\ AllDigits(frac)
             /\ Len(whole) + Len(frac) > 0
             /\ Len(frac) <= 2
          THEN [ok |-> TRUE, n |-> IF signed /\ t[1] = "-" THEN -mag ELSE mag]
     ELSE NaN

\* Number(value)
ToNumber(v) ==
  CASE v.k = "num" -> [ok |-> TRUE, n |-> v.n]
    [] v.k = "str" -> StrToNumber(v.s)
    [] v.k = "bool" -> [ok |-> TRUE, n |-> v.n * 100]
    [] v.k = "null" -> [ok |-> TRUE, n |-> 0]
    [] OTHER -> NaN

\* JavaScript falsiness: !value
Falsy(v) ==
  \/ v.k \in {"null", "undef"}
  \/ v.k = "str" /\ v.s = <<>>
  \/ v.k = "num" /\ v.n = 0
  \/ v.k = "bool" /\ v.n = 0

\* value === null || value === undefined || value === ''
IsMissing(v) == v.k \in {"null", "undef"} \/ (v.k = "str" /\ v.s = <<>>)

(***************************************************************************)
(* Rows: JavaScript objects with string keys, in insertion order           *)
(***************************************************************************)
\* a row is a sequence of [key, val] with distinct keys
Keys(row) == [i \in DOMAIN row |-> row[i].key]
HasKey(row, key) == \E i \in DOMAIN row : row[i].key = key
\* row[key]
Get(row, key) ==
  IF HasKey(row, key) THEN row[CHOOSE i \in DOMAIN row : row[i].key = key].val
  ELSE Undefined
\* row[key] = val
Put(row, key, val) ==
  IF HasKey(row, key)
  THEN [i \in DOMAIN row |-> IF row[i].key = key THEN [key |-> key, val |-> val] ELSE row[i]]
  ELSE Append(row, [key |-> key, val |-> val])

(***************************************************************************)
(* Dates.  A Date is a time in half hours since 1970-01-01T00:00Z.  The     *)
(* runtime's time zone decides what `new Date(y, m, d)`, getFullYear() and  *)
(* toISOString() give, so it is part of the environment (variable tz).      *)
(***************************************************************************)
TimeZones == {"utc", "east", "west"}
\* local time minus UTC, in half hours (UTC, UTC+2, UTC-5)
TzOffset(zone) == CASE zone = "east" -> 4 [] zone = "west" -> -10 [] OTHER -> 0

HalfHoursPerDay == 2 * 24

DaysFromCivil(y0, m, d) ==
  LET y == IF m <= 2 THEN y0 - 1 ELSE y0
      era == y \div 400
      yoe == y - era * 400
      doy == (153 * (IF m > 2 THEN m - 3 ELSE m + 9) + 2) \div 5 + d - 1
      doe == yoe * 365 + yoe \div 4 - yoe \div 100 + doy
  IN era * 146097 + doe - 719468

\* the calendar day of a day number, computed in stages: era and day of era,
\* year of era, day of year, month
CivilFromMp(era, yoe, doy, mp) ==
  [y |-> yoe + era * 400 + (IF mp >= 10 THEN 1 ELSE 0),
   m |-> IF mp < 10 THEN mp + 3 ELSE mp - 9,
   d |-> doy - (153 * mp + 2) \div 5 + 1]
CivilFromDoy(era, yoe, doy) == CivilFromMp(era, yoe, doy, (5 * doy + 2) \div 153)
CivilFromYoe(era, doe, yoe) ==
  CivilFromDoy(era, yoe, doe - (365 * yoe + yoe \div 4 - yoe \div 100))
CivilFromDoe(era, doe) ==
  CivilFromYoe(era, doe, (doe - doe \div 1460 + doe \div 36524 - doe \div 146096) \div 365)
CivilFromDays(z0) == CivilFromDoe((z0 + 719468) \div 146097, (z0 + 719468) % 146097)

IsLeap(y) == (y % 4 = 0 /\ y % 100 # 0) \/ y % 400 = 0
DaysInMonth(y, m) ==
  IF m = 2 THEN (IF IsLeap(y) THEN 29 ELSE 28)
  ELSE IF m \in {4, 6, 9, 11} THEN 30 ELSE 31

NoDate == [ok |-> FALSE, t |-> 0, format |-> "unknown"]
ADate(t, fmt) == [ok |-> TRUE, t |-> t, format |-> fmt]

\* new Date(year, monthIndex, day): local midnight; months and days overflow
\* into the next ones, a year 0..99 means 1900 + year
LocalDate(zone, year, monthIndex, day) ==
  LET y1 == IF year >= 0 /\ year <= 99 THEN 1900 + year ELSE year
      months == y1 * 12 + monthIndex
      y2 == months \div 12
      m2 == (months % 12) + 1
  IN (DaysFromCivil(y2, m2, 1) + day - 1) * HalfHoursPerDay - TzOffset(zone)

\* the local calendar day of a Date (getFullYear, getMonth, getDate, getDay)
LocalCivil(zone, t) == CivilFromDays((t + TzOffset(zone)) \div HalfHoursPerDay)
getFullYear(zone, t) == LocalCivil(zone, t).y
\* getMonth() + 1
getMonth1(zone, t) == LocalCivil(zone, t).m
\* getDay(): 0 is Sunday; 1970-01-01 was a Thursday
getDay(zone, t) == (((t + TzOffset(zone)) \div HalfHoursPerDay) + 4) % 7

Pad2(n) == <<DigitChars[(n \div 10) + 1], DigitChars[(n % 10) + 1]>>
Pad4(n) == Pad2(n \div 100) \o Pad2(n % 100)

\* date.toISOString().split('T')[0]: the UTC calendar day (years 0..9999)
ISODayOf(c) == Pad4(c.y) \o <<"-">> \o Pad2(c.m) \o <<"-">> \o Pad2(c.d)
ISODay(t) == ISODayOf(CivilFromDays(t \div HalfHoursPerDay))

\* year > 1900 && year < 2100
YearInRange(year) == year > 1900 /\ year < 2100
YearGuard(zone, t) == YearInRange(getFullYear(zone, t))

\* str.split(sep)
RECURSIVE Split(_, _, _)
Split(s, sep, cur) ==
  IF s = <<>> THEN <<cur>>
  ELSE IF Head(s) = sep THEN <<cur>> \o Split(Tail(s), sep, <<>>)
  ELSE Split(Tail(s), sep, Append(cur, Head(s)))

\* /^(\d{a,b})SEP(\d{a,b})SEP(\d{4})$/ and the like: three digit groups
ThreeGroups(s, sep, lens1, lens2, lens3) ==
  LET parts == Split(s, sep, <<>>)
  IN /\ Len(parts) = 3
     /\ \A i \in 1..3 : AllDigits(parts[i])
     /\ Len(parts[1]) \in lens1 /\ Len(parts[2]) \in lens2 /\ Len(parts[3]) \in lens3

GroupVal(s, sep, i) == DigitsVal(Split(s, sep, <<>>)[i], 0)

\* new Date(str) for an ISO calendar date YYYY-MM-DD: UTC midnight.  (A day
\* past the end of its month is accepted by some engines and refused by others;
\* no input of the model has one.)
UtcDay(y, m, d) ==
  IF m >= 1 /\ m <= 12 /\ d >= 1 /\ d <= DaysInMonth(y, m)
  THEN [ok |-> TRUE, t |-> DaysFromCivil(y, m, d) * HalfHoursPerDay]
  ELSE [ok |-> FALSE, t |-> 0]
IsoDateOnly(str) == UtcDay(GroupVal(str, "-", 1), GroupVal(str, "-", 2), GroupVal(str, "-", 3))

\* new Date(str) for a string that is no ISO date: the engine's own fallback
\* parser.  Modelled for V8 (the engine of the project's test runner and of
\* Chrome): a string without digits is no date; a lone integer n is read as
\* year 2000 (n = 0), month n of 2001 (1..12), nothing (13..31), year 2000+n
\* (32..49), year 1900+n (50..99), year n (100 and up; four digits are an ISO
\* year, in UTC).
LoneInteger(zone, n, len) ==
  IF len = 4 THEN [ok |-> TRUE, t |-> DaysFromCivil(n, 1, 1) * HalfHoursPerDay]
  ELSE IF n > 12 /\ n <= 31 THEN [ok |-> FALSE, t |-> 0]
  ELSE [ok |-> TRUE,
        t |-> LocalDate(zone,
                        IF n = 0 THEN 2000 ELSE IF n <= 12 THEN 2001
                        ELSE IF n <= 49 THEN 2000 + n ELSE IF n <= 99 THEN 1900 + n ELSE n,
                        IF n >= 1 /\ n <= 12 THEN n - 1 ELSE 0, 1)]
NaturalDate(zone, str) ==
  IF str # <<>> /\ AllDigits(str) /\ Len(str) <= 4
  THEN LoneInteger(zone, DigitsVal(str, 0), Len(str))
  ELSE [ok |-> FALSE, t |-> 0]

\* new Date(str)
NewDateFromString(zone, str) ==
  IF Len(str) = 10 /\ ThreeGroups(str, "-", {4}, {2}, {2}) THEN IsoDateOnly(str)
  ELSE NaturalDate(zone, str)

\* parseMultiFormatDate(value).  Rows hold no Date objects, so the
\* `instanceof Date` branch is never taken.
parseDateString(zone, str, d8, parsed) ==
  IF str = <<>> THEN NoDate
  ELSE IF Len(str) = 8 /\ AllDigits(str) /\ YearGuard(zone, d8)
    THEN ADate(d8, "YYYYMMDD")
  ELSE IF /\ Len(str) >= 10
          /\ ThreeGroups(SubSeq(str, 1, 10), "-", {4}, {2}, {2})
          /\ parsed.ok /\ YearGuard(zone, parsed.t)
    THEN ADate(parsed.t, "YYYY-MM-DD")
  ELSE IF ThreeGroups(str, "/", {4}, {2}, {2})
    THEN ADate(LocalDate(zone, GroupVal(str, "/", 1), GroupVal(str, "/", 2) - 1,
                         GroupVal(str, "/", 3)), "YYYY/MM/DD")
  ELSE IF ThreeGroups(str, "/", {1, 2}, {1, 2}, {4})
    THEN ADate(LocalDate(zone, GroupVal(str, "/", 3), GroupVal(str, "/", 1) - 1,
                         GroupVal(str, "/", 2)), "MM/DD/YYYY")
  ELSE IF ThreeGroups(str, "-", {1, 2}, {1, 2}, {4})
    THEN ADate(LocalDate(zone, GroupVal(str, "-", 3), GroupVal(str, "-", 2) - 1,
                         GroupVal(str, "-", 1)), "DD-MM-YYYY")
  \* the DD/MM/YYYY branch tests the pattern of the MM/DD/YYYY branch,
  \* which has already returned: it is never reached
  ELSE IF parsed.ok /\ YearGuard(zone, parsed.t)
    THEN ADate(parsed.t, "natural")
  ELSE NoDate

\* the string form of the value, the YYYYMMDD reading of it and new Date(str)
parseTrimmed(zone, str) ==
  parseDateString(zone, str,
                  LocalDate(zone, DigitsVal(SubSeq(str, 1, 4), 0),
                            DigitsVal(SubSeq(str, 5, 6), 0) - 1,
                            DigitsVal(SubSeq(str, 7, 8), 0)),
                  NewDateFromString(zone, str))

parseMultiFormatDate(zone, value) ==
  IF Falsy(value) THEN NoDate ELSE parseTrimmed(zone, trim(ToStr(value)))

(***************************************************************************)
(* schemaEngine.ts: distance and similarity                                *)
(***************************************************************************)
\* a faulty variant: a substitution costs nothing
LevCell_freeSubstitution(up, left, diag, same) == Min(Min(up + 1, left + 1), diag)

\* dp[i][j] = Math.min(dp[i-1][j] + 1, dp[i][j-1] + 1, dp[i-1][j-1] + cost)
LevCell(up, left, diag, same) == Min(Min(up + 1, left + 1), diag + (IF same THEN 0 ELSE 1))

\* one row of the dynamic-programming table: dp[i][0..lb] from dp[i-1][0..lb]
\* (no cell is negative: the test makes a cell a number before the next one
\* is computed from it)
RECURSIVE LevRow(_, _, _, _, _)
LevRow(prev, ai, b, j, acc) ==
  IF j > Len(b) \/ acc[j] < 0 THEN acc
  ELSE LevRow(prev, ai, b, j + 1, Append(acc, LevCell(prev[j + 1], acc[j], prev[j], ai = b[j])))

\* the rows dp[i..la] from dp[i-1] (a row is complete before the next one starts)
RECURSIVE LevRows(_, _, _, _)
LevRows(a, b, i, prev) ==
  IF i > Len(a) \/ prev[Len(b) + 1] < 0 THEN prev
  ELSE LevRows(a, b, i + 1, LevRow(prev, a[i], b, 1, <<i>>))

levenshteinDistance(a, b) ==
  LevRows(a, b, 1, [j \in 1..(Len(b) + 1) |-> j - 1])[Len(b) + 1]

\* a faulty variant: the normalisation forgets to lower-case
normalize_caseSensitive(s) == FilterChars(s, AlnumLower \cup Range(UpperChars))

normalize(s) == FilterChars(toLowerCase(s), AlnumLower)

stringSimilarity(a, b) ==
  LET na == normalize(a)
      nb == normalize(b)
      maxLen == Max(Len(na), Len(nb))
  IN IF na = nb THEN 100
     ELSE IF maxLen = 0 THEN 100
     ELSE RoundDiv((maxLen - levenshteinDistance(na, nb)) * 100, maxLen)

(***************************************************************************)
(* schemaEngine.ts: validateSchema                                         *)
(***************************************************************************)
\* JavaScript null where a column name is expected (no name has this shape)
NullName == <<"null">>

Unmatched == [target |-> NullName, score |-> 0, status |-> "unmatched"]

MaxOf(S) == IF S = {} THEN 0 ELSE CHOOSE m \in S : \A x \in S : x <= m

\* tgt.aliases?.some(a => normalize(a) === normalize(src))
AliasMatches(src, tgt) ==
  \E i \in DOMAIN tgt.aliases : normalize(tgt.aliases[i]) = normalize(src)

\* a faulty variant: a later target with the same similarity replaces the best
Improves_orTies(finalSim, bestScore) == finalSim >= bestScore /\ finalSim >= 50

\* if (finalSim > bestScore && finalSim >= 50)
Improves(finalSim, bestScore) == finalSim > bestScore /\ finalSim >= 50

\* the inner loop `for (const tgt of targetSchema.columns)` from column j on,
\* with best = (bestTarget, bestScore, bestStatus)
RECURSIVE MatchLoop(_, _, _, _)
MatchLoop(src, cols, j, best) ==
  IF j > Len(cols) THEN best
  ELSE LET tgt == cols[j] IN
    IF normalize(src) = normalize(tgt.name)
      THEN [target |-> tgt.name, score |-> 100, status |-> "exact"]
    ELSE IF AliasMatches(src, tgt)
      THEN [target |-> tgt.name, score |-> 95, status |-> "exact"]
    ELSE LET sim == stringSimilarity(src, tgt.name)
             maxAlias == MaxOf({stringSimilarity(src, tgt.aliases[i]) :
                                   i \in DOMAIN tgt.aliases})
             finalSim == Max(sim, maxAlias)
         IN IF Improves(finalSim, best.score)
              THEN MatchLoop(src, cols, j + 1,
                     [target |-> tgt.name, score |-> finalSim, status |-> "fuzzy"])
              ELSE MatchLoop(src, cols, j + 1, best)

MatchSource(src, cols) == MatchLoop(src, cols, 1, Unmatched)

\* JavaScript truthiness of bestTarget: null and '' are falsy
Truthy(name) == name # NullName /\ name # <<>>

RECURSIVE SumSeq(_)
SumSeq(s) == IF s = <<>> THEN 0 ELSE Head(s) + SumSeq(Tail(s))

RECURSIVE SelectSeq2(_, _)
SelectSeq2(s, keepSet) ==
  IF s = <<>> THEN <<>>
  ELSE IF Head(s) \in keepSet THEN <<Head(s)>> \o SelectSeq2(Tail(s), keepSet)
  ELSE SelectSeq2(Tail(s), keepSet)

\* one iteration of `for (const src of sourceColumns)`
ValidateColumn ==
  /\ vpc = "loop"
  /\ vIdx <= Len(vSource)
  /\ LET src == vSource[vIdx]
         best == MatchSource(src, vSchema)
     IN /\ vMatched' = IF Truthy(best.target) THEN vMatched \cup {best.target}
                       ELSE vMatched
        /\ vMappings' = Append(vMappings,
              [sourceColumn |-> src, suggestedTarget |-> best.target,
               confidence |-> best.score, status |-> best.status])
  /\ vIdx' = vIdx + 1
  /\ UNCHANGED <<vpc, vSource, vSchema, vResult, NotValidate>>

\* the code after the loop: unmappedSource, unmappedTarget, overallConfidence, isValid
ValidateResult(mappings, matched, cols) ==
  LET unmappedSource == [i \in 1..Len(SelectSeq(mappings, LAMBDA m : m.status = "unmatched"))
                           |-> SelectSeq(mappings, LAMBDA m : m.status = "unmatched")[i].sourceColumn]
      unmappedCols == SelectSeq(cols, LAMBDA c : c.name \notin matched)
      unmappedTarget == [i \in 1..Len(unmappedCols) |-> unmappedCols[i].name]
      mapped == SelectSeq(mappings, LAMBDA m : m.status # "unmatched")
      confSum == SumSeq([i \in 1..Len(mapped) |-> mapped[i].confidence])
      \* targetSchema.columns.find(c => c.name === t)?.required
      firstRequired(t) == LET k == CHOOSE k \in DOMAIN cols :
                                      /\ cols[k].name = t
                                      /\ \A k2 \in 1..(k - 1) : cols[k2].name # t
                          IN cols[k].required
  IN [isValid |-> \A i \in DOMAIN unmappedTarget : ~firstRequired(unmappedTarget[i]),
      mappings |-> mappings,
      unmappedSource |-> unmappedSource,
      unmappedTarget |-> unmappedTarget,
      overallConfidence |-> IF Len(mapped) > 0 THEN RoundDiv(confSum, Len(mapped)) ELSE 0]

ValidateFinish ==
  /\ vpc = "loop"
  /\ vIdx > Len(vSource)
  /\ vResult' = ValidateResult(vMappings, vMatched, vSchema)
  /\ vpc' = "done"
  /\ UNCHANGED <<vSource, vSchema, vIdx, vMappings, vMatched, NotValidate>>

\* ---- inputs of the validateSchema runs ----
n_name == <<"n","a","m","e">>
n_Name == <<"N","a","m","e">>
n_nam == <<"n","a","m">>
n_full_name == <<"f","u","l","l","_","n","a","m","e">>
n_id == <<"i","d">>
n_cust_id == <<"c","u","s","t","_","i","d">>

SourceNames == {n_name, n_Name, n_nam, n_id, n_cust_id}

\* the target columns the schemas are built from
SchemaColumns ==
  { [name |-> n_full_name, type |-> "string", required |-> TRUE,  aliases |-> <<n_name>>],
    [name |-> n_name,      type |-> "string", required |-> FALSE, aliases |-> <<>>],
    [name |-> n_id,        type |-> "number", required |-> TRUE,  aliases |-> <<n_cust_id>>],
    [name |-> n_id,        type |-> "number", required |-> FALSE, aliases |-> <<>>],
    [name |-> n_nam,       type |-> "string", required |-> FALSE, aliases |-> <<n_id, n_Name>>] }

MaxSource == 2
MaxTargets == 2

SeqsUpTo(S, n) == UNION {[1..k -> S] : k \in 0..n}

EmptyValidation == [isValid |-> TRUE, mappings |-> <<>>, unmappedSource |-> <<>>,
                    unmappedTarget |-> <<>>, overallConfidence |-> 0]

InitValidateInputs ==
  /\ vpc = "loop"
  /\ vSource \in SeqsUpTo(SourceNames, MaxSource)
  /\ vSchema \in SeqsUpTo(SchemaColumns, MaxTargets)
  /\ vIdx = 1
  /\ vMappings = <<>>
  /\ vMatched = {}
  /\ vResult = EmptyValidation

IdleValidate ==
  /\ vpc = "idle" /\ vSource = <<>> /\ vSchema = <<>> /\ vIdx = 1
  /\ vMappings = <<>> /\ vMatched = {} /\ vResult = EmptyValidation


(***************************************************************************)
(* Calls of stringSimilarity, levenshteinDistance and parseMultiFormatDate *)
(***************************************************************************)
\* one call of stringSimilarity(a, b) and of stringSimilarity(b, a), and the
\* calls levenshteinDistance(a, b) and levenshteinDistance(a, a)
Similarity ==
  /\ spc = "start"
  /\ sOut' = [sim |-> stringSimilarity(sA, sB), back |-> stringSimilarity(sB, sA),
              dist |-> levenshteinDistance(sA, sB), self |-> levenshteinDistance(sA, sA)]
  /\ spc' = "done"
  /\ UNCHANGED <<tz, sA, sB, vVars, tVars, aVars, dVars, pVars, gVars, cVars>>

\* one call of parseMultiFormatDate(value) on a string
ParseDate ==
  /\ dpc = "start"
  /\ dOut' = parseMultiFormatDate(tz, Str(dIn))
  /\ dpc' = "done"
  /\ UNCHANGED <<tz, dIn, vVars, tVars, aVars, sVars, pVars, gVars, cVars>>

\* ---- inputs of the stringSimilarity calls ----
s_kitten == <<"k","i","t","t","e","n">>
s_sitting == <<"s","i","t","t","i","n","g">>
NameChars == {"a", "b", "B", "_"}
MaxNameLen == 3
SimilarityInputs == SeqsUpTo(NameChars, MaxNameLen) \cup {s_kitten, s_sitting}
NoSimilarity == [sim |-> 0, back |-> 0, dist |-> 0, self |-> 0]

InitSimilarityInputs ==
  /\ spc = "start" /\ sA \in SimilarityInputs /\ sB \in SimilarityInputs
  /\ sOut = NoSimilarity

IdleSimilarity == spc = "idle" /\ sA = <<>> /\ sB = <<>> /\ sOut = NoSimilarity

\* ---- inputs of the parseMultiFormatDate calls ----
\* years on both sides of the guard, first and second components on both
\* sides of 12
DateYears == {1800, 1900, 1901, 2024, 2099, 2100}
DateFirsts == {1, 2, 12, 13, 25, 31}
DateSeconds == {1, 12, 13}
Digits12(n) == {NatToStr(n), Pad2(n)}

\* a/b/YYYY and a-b-YYYY
DayMonthStrings(sep) ==
  UNION { { a \o <<sep>> \o b \o <<sep>> \o Pad4(y) : a \in Digits12(n1), b \in Digits12(n2) } :
            n1 \in DateFirsts, n2 \in DateSeconds, y \in DateYears }
\* YYYY/MM/DD and YYYY-MM-DD (days that the month has), YYYYMMDD
YearFirstStrings ==
  { Pad4(y) \o <<"/">> \o Pad2(m) \o <<"/">> \o Pad2(d) :
      y \in DateYears, m \in {1, 12, 13}, d \in {1, 31} }
  \cup { Pad4(y) \o <<"-">> \o Pad2(m) \o <<"-">> \o Pad2(d) :
            y \in DateYears, m \in {1, 12}, d \in {1, 31} }
  \cup { Pad4(y) \o Pad2(m) \o Pad2(d) : y \in DateYears, m \in {1, 12, 13}, d \in {1, 40} }
\* strings that are no date, lone integers
OtherStrings ==
  { <<>>, <<" ">>, <<"a","b","c">>, <<"1","3">>, <<"5","0">>, <<"0">>,
    <<"2","0","2","4">>, <<"1","8","0","0">> }

DateStrings ==
  DayMonthStrings("/") \cup DayMonthStrings("-") \cup YearFirstStrings \cup OtherStrings

InitDateInputs ==
  /\ tz \in TimeZones
  /\ dpc = "start" /\ dIn \in DateStrings /\ dOut = NoDate

IdleDates == dpc = "idle" /\ dIn = <<>> /\ dOut = NoDate

\* no call of another function that reads no state
IdlePure == ppc = "idle" /\ pFn = "none" /\ pArg = <<>> /\ pOut = <<>>

(***************************************************************************)
(* schemaEngine.ts: enforceType, hashRow, transformData                    *)
(***************************************************************************)
r_cannotCast == <<"C","a","n","n","o","t"," ","c","a","s","t"," ","\"">>
r_cannotParse == <<"C","a","n","n","o","t"," ","p","a","r","s","e"," ","\"">>
r_toNumber == <<"\""," ","t","o"," ","n","u","m","b","e","r">>
r_toBoolean == <<"\""," ","t","o"," ","b","o","o","l","e","a","n">>
r_asDate == <<"\""," ","a","s"," ","d","a","t","e"," ","(","t","r","i","e","d"," ","I","S","O",","," ","U","S",","," ","E","U"," ","f","o","r","m","a","t","s",")">>
r_sep == <<";"," ">>
k_error_details == <<"_","e","r","r","o","r","_","d","e","t","a","i","l","s">>

\* String(value).slice(0, 50)
Slice50(str) == SubSeq(str, 1, Min(Len(str), 50))

EnforceTrueVals == {<<"t","r","u","e">>, <<"y","e","s">>, <<"1">>, <<"y">>, <<"t">>, <<"o","n">>}
EnforceFalseVals == {<<"f","a","l","s","e">>, <<"n","o">>, <<"0">>, <<"n">>, <<"f">>, <<"o","f","f">>}

Invalid(value, before, after) ==
  [value |-> value, valid |-> FALSE, reason |-> before \o Slice50(ToStr(value)) \o after]
Valid(value) == [value |-> value, valid |-> TRUE, reason |-> <<>>]

\* case 'number', given Number(String(value).replace(/,/g, ''))
enforceNumber(value, num) ==
  IF ~num.ok THEN Invalid(value, r_cannotCast, r_toNumber) ELSE Valid(NumC(num.n))
\* case 'date', given parseMultiFormatDate(value)
enforceDate(value, parsed) ==
  IF ~parsed.ok THEN Invalid(value, r_cannotParse, r_asDate) ELSE Valid(Str(ISODay(parsed.t)))
\* case 'boolean', given String(value).toLowerCase().trim()
enforceBoolean(value, str) ==
  IF str \in EnforceTrueVals THEN Valid(Bool(TRUE))
  ELSE IF str \in EnforceFalseVals THEN Valid(Bool(FALSE))
  ELSE Invalid(value, r_cannotCast, r_toBoolean)

enforceType(zone, value, expectedType) ==
  IF IsMissing(value) THEN Valid(Null)
  ELSE CASE expectedType = "number" ->
              enforceNumber(value, StrToNumber(RemoveCommas(ToStr(value))))
         [] expectedType = "date" -> enforceDate(value, parseMultiFormatDate(zone, value))
         [] expectedType = "boolean" -> enforceBoolean(value, trim(toLowerCase(ToStr(value))))
         [] OTHER -> Valid(Str(trim(ToStr(value))))

\* insertion of a key into a sorted list of keys (Array.prototype.sort)
RECURSIVE InsertSorted(_, _)
InsertSorted(sorted, key) ==
  IF sorted = <<>> THEN <<key>>
  ELSE IF StrLess(key, Head(sorted)) THEN <<key>> \o sorted
  ELSE <<Head(sorted)>> \o InsertSorted(Tail(sorted), key)

RECURSIVE SortKeys(_)
SortKeys(keys) == IF keys = <<>> THEN <<>> ELSE InsertSorted(SortKeys(Tail(keys)), Head(keys))

RECURSIVE Join(_, _)
Join(parts, sep) ==
  IF parts = <<>> THEN <<>>
  ELSE IF Len(parts) = 1 THEN parts[1]
  ELSE parts[1] \o sep \o Join(Tail(parts), sep)

\* `${k}:${String(row[k] ?? '')}`
HashPart(k, v) == k \o <<":">> \o (IF v.k \in {"null", "undef"} THEN <<>> ELSE ToStr(v))
HashKeys(row, keys) == Join([i \in DOMAIN keys |-> HashPart(keys[i], Get(row, keys[i]))], <<"|">>)
hashRow(row) == HashKeys(row, SortKeys(Keys(row)))

\* targetSchema.columns.find(c => c.name === tgtCol): its index, 0 when absent
FindColumn(cols, name) ==
  IF \E j \in DOMAIN cols : cols[j].name = name
  THEN CHOOSE j \in DOMAIN cols : cols[j].name = name /\ \A k \in 1..(j - 1) : cols[k].name # name
  ELSE 0

ZeroStats == [valid |-> 0, invalid |-> 0, missing |-> 0]

\* the accumulators before the loop
XfInit(cols) ==
  [seen |-> {}, successRows |-> <<>>, errorRows |-> <<>>, errorLog |-> <<>>,
   failureReasons |-> <<>>, duplicatesSkipped |-> 0,
   columnStats |-> [name \in {cols[j].name : j \in DOMAIN cols} |-> ZeroStats]]

\* a faulty variant: a reason that is met again is counted once
Bump_once(counts, key) == [k \in DOMAIN counts \cup {key} |-> IF k = key THEN 1 ELSE counts[k]]

\* failureReasons[reason] = (failureReasons[reason] || 0) + 1
Bump(counts, key) ==
  IF key \in DOMAIN counts THEN [counts EXCEPT ![key] = @ + 1]
  ELSE [k \in DOMAIN counts \cup {key} |-> IF k = key THEN 1 ELSE counts[k]]

\* the body of the loop over mappingEntries: one entry's effect on
\* st = (targetRow, rowHasError, rowErrors, failureReasons, columnStats), given
\* the target's column type ("" when the schema has no such column), the raw
\* value and enforceType's answer
MapEntry(st, i, tgtCol, type, rawValue, res) ==
  IF type = ""
    THEN [st EXCEPT !.targetRow = Put(@, tgtCol, rawValue)]
  ELSE IF IsMissing(rawValue)
    THEN [st EXCEPT !.targetRow = Put(@, tgtCol, Null),
                    !.columnStats[tgtCol].missing = @ + 1]
  ELSE IF res.valid
    THEN [st EXCEPT !.targetRow = Put(@, tgtCol, res.value),
                    !.columnStats[tgtCol].valid = @ + 1]
  ELSE [st EXCEPT !.rowHasError = TRUE,
                  !.rowErrors = Append(@, [rowIndex |-> i - 1, column |-> tgtCol,
                                           originalValue |-> rawValue,
                                           expectedType |-> type,
                                           reason |-> res.reason]),
                  !.columnStats[tgtCol].invalid = @ + 1,
                  !.failureReasons = Bump(@, res.reason),
                  !.targetRow = Put(@, tgtCol, rawValue)]

ColumnType(cols, c) == IF c = 0 THEN "" ELSE cols[c].type
MapCell(zone, st, i, tgtCol, type, rawValue) ==
  MapEntry(st, i, tgtCol, type, rawValue, enforceType(zone, rawValue, type))

\* the loop over mappingEntries for one source row, from entry e on
RECURSIVE MapEntries(_, _, _, _, _, _, _)
MapEntries(zone, srcRow, i, cols, entries, e, st) ==
  IF e > Len(entries) THEN st
  ELSE MapEntries(zone, srcRow, i, cols, entries, e + 1,
                  MapCell(zone, st, i, entries[e].tgt,
                          ColumnType(cols, FindColumn(cols, entries[e].tgt)),
                          Get(srcRow, entries[e].src)))

\* the end of one iteration: the row goes to errorRows or to successRows
FinishRow(acc, hash, st) ==
  IF st.rowHasError
  THEN [acc EXCEPT !.seen = @ \cup {hash},
                   !.errorRows =
                     Append(@, Put(st.targetRow, k_error_details,
                                   Str(Join([j \in DOMAIN st.rowErrors |-> st.rowErrors[j].reason],
                                            r_sep)))),
                   !.errorLog = @ \o st.rowErrors,
                   !.failureReasons = st.failureReasons,
                   !.columnStats = st.columnStats]
  ELSE [acc EXCEPT !.seen = @ \cup {hash},
                   !.successRows = Append(@, st.targetRow),
                   !.failureReasons = st.failureReasons,
                   !.columnStats = st.columnStats]

RowStart(acc) ==
  [targetRow |-> <<>>, rowHasError |-> FALSE, rowErrors |-> <<>>,
   failureReasons |-> acc.failureReasons, columnStats |-> acc.columnStats]

\* a faulty variant: no row is taken for a duplicate
HashedRow_neverSkips(zone, acc, srcRow, i, cols, entries, hash) ==
  FinishRow(acc, hash, MapEntries(zone, srcRow, i, cols, entries, 1, RowStart(acc)))

HashedRow(zone, acc, srcRow, i, cols, entries, hash) ==
  IF hash \in acc.seen
  THEN [acc EXCEPT !.duplicatesSkipped = @ + 1]
  ELSE FinishRow(acc, hash, MapEntries(zone, srcRow, i, cols, entries, 1, RowStart(acc)))

\* one iteration of `for (let i = 0; i < data.length; i++)` (i counted from 1)
TransformRow(zone, acc, srcRow, i, cols, entries) ==
  HashedRow(zone, acc, srcRow, i, cols, entries, hashRow(srcRow))

\* the value returned after the loop
TransformResult(acc, data, cols, entries) ==
  [data |-> acc.successRows,
   errorRows |-> acc.errorRows,
   qualitySummary |->
     [rowsProcessed |-> Len(data) - acc.duplicatesSkipped,
      rowsSucceeded |-> Len(acc.successRows),
      rowsFailed |-> Len(acc.errorRows),
      failureReasons |-> acc.failureReasons,
      mappingConfidenceScore |->
        IF Len(cols) > 0 THEN RoundDiv(Len(entries) * 100, Len(cols)) ELSE 100,
      errorLog |-> acc.errorLog,
      duplicatesSkipped |-> acc.duplicatesSkipped,
      columnStats |-> acc.columnStats],
   appliedMappings |-> entries]

\* transformData as a function of its arguments
RECURSIVE TransformLoop(_, _, _, _, _, _)
TransformLoop(zone, acc, data, i, cols, entries) ==
  IF i > Len(data) THEN acc
  ELSE TransformLoop(zone, TransformRow(zone, acc, data[i], i, cols, entries),
                     data, i + 1, cols, entries)

transformData(zone, data, cols, entries) ==
  TransformResult(TransformLoop(zone, XfInit(cols), data, 1, cols, entries),
                  data, cols, entries)

TransformStep ==
  /\ tpc = "loop"
  /\ tIdx <= Len(tData)
  /\ xf' = TransformRow(tz, xf, tData[tIdx], tIdx, tSchema, tMap)
  /\ tIdx' = tIdx + 1
  /\ UNCHANGED <<tz, tpc, tData, tSchema, tMap, tResult, NotTransform>>

TransformFinish ==
  /\ tpc = "loop"
  /\ tIdx > Len(tData)
  /\ tResult' = TransformResult(xf, tData, tSchema, tMap)
  /\ tpc' = "done"
  /\ UNCHANGED <<tz, tData, tSchema, tMap, tIdx, xf, NotTransform>>

\* ---- inputs of the transformData runs ----
k_a == <<"a">>
k_b == <<"b">>
n_amount == <<"a","m","o","u","n","t">>
n_when == <<"w","h","e","n">>
n_flag == <<"f","l","a","g">>
n_label == <<"l","a","b","e","l">>
n_extra == <<"e","x","t","r","a">>
s_1234_56 == <<"1",",","2","3","4",".","5","6">>
s_abc == <<"a","b","c">>
s_iso_jan15 == <<"2","0","2","4","-","0","1","-","1","5">>
s_us_mar15 == <<"0","3","/","1","5","/","2","0","2","4">>
s_yes == <<"y","e","s">>
s_5 == <<"5">>

TransformSchema ==
  << [name |-> n_amount, type |-> "number", required |-> TRUE, aliases |-> <<>>],
     [name |-> n_when, type |-> "date", required |-> FALSE, aliases |-> <<>>],
     [name |-> n_flag, type |-> "boolean", required |-> FALSE, aliases |-> <<>>],
     [name |-> n_label, type |-> "string", required |-> FALSE, aliases |-> <<>>] >>

\* column a goes to the number column, column b to any column of the schema
\* (to `amount` too: two sources confirmed for one target) or to a column the
\* schema does not have
TransformMappings ==
  { <<[src |-> k_a, tgt |-> n_amount], [src |-> k_b, tgt |-> t]>> :
      t \in {n_when, n_flag, n_label, n_amount, n_extra} }

ValuesA == {Str(s_1234_56), Str(s_abc), Str(s_5), Num(5), Null}
ValuesB == {Str(s_iso_jan15), Str(s_us_mar15), Str(s_abc), Str(s_yes), Str(<<>>)}
\* rows with both columns (a number that casts or one that does not, beside
\* every value of b) and rows with column a alone
TransformRows ==
  { <<[key |-> k_a, val |-> va], [key |-> k_b, val |-> vb]>> :
      va \in {Str(s_1234_56), Str(s_abc)}, vb \in ValuesB }
  \cup { <<[key |-> k_a, val |-> va]>> : va \in ValuesA }

MaxTRows == 2

InitTransformInputs ==
  /\ tz \in {"utc", "east"}
  /\ tpc = "loop"
  /\ tData \in SeqsUpTo(TransformRows, MaxTRows)
  /\ tSchema = TransformSchema
  /\ tMap \in TransformMappings
  /\ tIdx = 1
  /\ xf = XfInit(tSchema)
  /\ tResult = TransformResult(XfInit(<<>>), <<>>, <<>>, <<>>)

IdleTransform ==
  /\ tpc = "idle" /\ tData = <<>> /\ tSchema = <<>> /\ tMap = <<>> /\ tIdx = 1
  /\ xf = XfInit(<<>>)
  /\ tResult = TransformResult(XfInit(<<>>), <<>>, <<>>, <<>>)

(***************************************************************************)
(* schemaEngine.ts: inferSchemaFromData, autoTransform                     *)
(***************************************************************************)
\* data.slice(0, 100).map(r => r[key]).filter(v => v !== null && v !== undefined && v !== '')
SampleOf(data, key) ==
  SelectSeq([i \in 1..Min(Len(data), 100) |-> Get(data[i], key)], LAMBDA v : ~IsMissing(v))

InferBoolVals ==
  {<<"t","r","u","e">>, <<"f","a","l","s","e">>, <<"y","e","s">>, <<"n","o">>,
   <<"1">>, <<"0">>, <<"y">>, <<"n">>}

\* the type chosen for one column, given the numbers of sampled values that
\* read as a number, as a date and as a boolean word
InferFrom(len, numCount, dateCount, boolCount) ==
  IF numCount * 100 > 85 * Max(len, 1) THEN "number"
  ELSE IF dateCount * 10 > 7 * Max(len, 1) THEN "date"
  ELSE IF boolCount = len /\ len >= 2 THEN "boolean"
  ELSE "string"

InferType(zone, sample) ==
  InferFrom(Len(sample),
            Cardinality({i \in DOMAIN sample :
                           StrToNumber(RemoveCommas(ToStr(sample[i]))).ok}),
            Cardinality({i \in DOMAIN sample : parseMultiFormatDate(zone, sample[i]).ok}),
            Cardinality({i \in DOMAIN sample :
                           trim(toLowerCase(ToStr(sample[i]))) \in InferBoolVals}))

InferColumns(zone, data, keys) ==
  [j \in DOMAIN keys |->
     [name |-> keys[j], type |-> InferType(zone, SampleOf(data, keys[j])),
      required |-> FALSE, aliases |-> <<>>]]

inferSchemaFromData(zone, data) ==
  IF Len(data) = 0 THEN <<>> ELSE InferColumns(zone, data, Keys(data[1]))

\* validateSchema as a function of its arguments
RECURSIVE ValidateLoop(_, _, _, _, _)
ValidateLoop(sources, cols, i, mappings, matched) ==
  IF i > Len(sources) THEN ValidateResult(mappings, matched, cols)
  ELSE ValidateLoop(sources, cols, i + 1,
         Append(mappings,
                [sourceColumn |-> sources[i],
                 suggestedTarget |-> MatchSource(sources[i], cols).target,
                 confidence |-> MatchSource(sources[i], cols).score,
                 status |-> MatchSource(sources[i], cols).status]),
         IF Truthy(MatchSource(sources[i], cols).target)
         THEN matched \cup {MatchSource(sources[i], cols).target} ELSE matched)

validateSchema(sources, cols) == ValidateLoop(sources, cols, 1, <<>>, {})

\* the mappings confirmed on their own: if (m.suggestedTarget && m.confidence >= 50)
AutoConfirmed(mappings) ==
  LET kept == SelectSeq(mappings, LAMBDA m : Truthy(m.suggestedTarget) /\ m.confidence >= 50)
  IN [k \in DOMAIN kept |-> [src |-> kept[k].sourceColumn, tgt |-> kept[k].suggestedTarget]]

\* the source columns that pass through: if (!confirmedMappings[src])
PassThrough(sources, confirmed) ==
  LET rest == SelectSeq(sources, LAMBDA c : \A k \in DOMAIN confirmed : confirmed[k].src # c)
  IN [k \in DOMAIN rest |-> [src |-> rest[k], tgt |-> rest[k]]]

\* Object.entries(confirmedMappings) after both loops
AutoMappings(sources, mappings) ==
  AutoConfirmed(mappings) \o PassThrough(sources, AutoConfirmed(mappings))

NotGiven == [given |-> FALSE, columns |-> <<>>]
Given(cols) == [given |-> TRUE, columns |-> cols]

\* targetSchema || inferSchemaFromData(data)
AutoSchema(zone, given, data) ==
  IF given.given THEN given.columns ELSE inferSchemaFromData(zone, data)

\* autoTransform up to its call of transformData, whose loop TransformStep and
\* TransformFinish run; on empty data it returns at once
AutoTransform ==
  /\ apc = "start"
  /\ apc' = "called"
  /\ IF Len(tData) = 0
     THEN /\ aValidation' = [EmptyValidation EXCEPT !.overallConfidence = 100]
          /\ tResult' = TransformResult(XfInit(<<>>), <<>>, <<>>, <<>>)
          /\ tpc' = "done"
          /\ UNCHANGED <<tSchema, tMap, xf>>
     ELSE /\ aValidation' = validateSchema(Keys(tData[1]), AutoSchema(tz, aGiven, tData))
          /\ tSchema' = AutoSchema(tz, aGiven, tData)
          /\ tMap' = AutoMappings(Keys(tData[1]), aValidation'.mappings)
          /\ xf' = XfInit(tSchema')
          /\ tpc' = "loop"
          /\ UNCHANGED tResult
  /\ UNCHANGED <<tz, tData, tIdx, aGiven, vVars, sVars, dVars, pVars, gVars, cVars>>

\* ---- inputs of the autoTransform runs ----
s_xyz_padded == <<" ","x","y","z">>

\* rows with column a alone, rows with columns a and b, rows whose two column
\* names differ in case only, rows whose two column names are one letter apart
AutoRows ==
  { <<[key |-> k_a, val |-> va]>> : va \in {Str(s_1234_56), Str(s_abc), Num(5)} }
  \cup { <<[key |-> k_a, val |-> va], [key |-> k_b, val |-> vb]>> :
            va \in {Str(s_5), Str(s_abc)}, vb \in {Str(s_iso_jan15), Str(s_yes), Str(<<>>)} }
  \cup { <<[key |-> n_Name, val |-> Str(s_abc)], [key |-> n_name, val |-> Str(s_xyz_padded)]>>,
          <<[key |-> n_name, val |-> Str(s_abc)], [key |-> n_nam, val |-> Str(s_yes)]>> }

\* no schema, two schemas of one column, a schema that names both columns a and b
AutoSchemas ==
  { NotGiven,
    Given(<<[name |-> n_name, type |-> "string", required |-> TRUE, aliases |-> <<>>]>>),
    Given(<<[name |-> n_amount, type |-> "number", required |-> TRUE, aliases |-> <<k_a>>]>>),
    Given(<<[name |-> k_a, type |-> "number", required |-> FALSE, aliases |-> <<>>],
            [name |-> k_b, type |-> "date", required |-> FALSE, aliases |-> <<>>],
            [name |-> n_extra, type |-> "string", required |-> TRUE, aliases |-> <<>>]>>) }

MaxARows == 2

InitAutoInputs ==
  /\ tz \in {"utc", "east"}
  /\ apc = "start"
  /\ aGiven \in AutoSchemas
  /\ aValidation = EmptyValidation
  /\ tpc = "idle"
  /\ tData \in SeqsUpTo(AutoRows, MaxARows)
  /\ tSchema = <<>> /\ tMap = <<>> /\ tIdx = 1
  /\ xf = XfInit(<<>>)
  /\ tResult = TransformResult(XfInit(<<>>), <<>>, <<>>, <<>>)

IdleAuto == apc = "idle" /\ aGiven = NotGiven /\ aValidation = EmptyValidation

(***************************************************************************)
(* dataAnalyzer.ts: the column profiler                                    *)
(***************************************************************************)
\* the elements of a sequence that are in keepSet / the number of them
CountIn(s, keepSet) == Cardinality({i \in DOMAIN s : s[i] \in keepSet})
SetOf(s) == {s[i] : i \in DOMAIN s}

\* [...BOOLEAN_VALUES.true, ...BOOLEAN_VALUES.false] and parseBoolean's lists
TrueTokens == EnforceTrueVals \cup {<<"a","c","t","i","v","e">>, <<"e","n","a","b","l","e","d">>}
FalseTokens ==
  EnforceFalseVals \cup {<<"i","n","a","c","t","i","v","e">>, <<"d","i","s","a","b","l","e","d">>}

\* String(v).toLowerCase().trim()
LowerTrim(v) == trim(toLowerCase(ToStr(v)))

\* isEmpty(value): null, undefined or a string that trims to ''
isEmpty(v) == v.k \in {"null", "undef"} \/ (v.k = "str" /\ trim(v.s) = <<>>)

\* str !== '' && !isNaN(Number(str.replace(/,/g, ''))) for str = String(v).trim()
LooksNumeric(v) == trim(ToStr(v)) # <<>> /\ StrToNumber(RemoveCommas(trim(ToStr(v)))).ok

\* the decisions of detectColumnType on the sample (sampleSize is 200 at most)
TypeOfSample(zone, sample, distinctAll) ==
  IF Len(sample) >= 2 /\ \A i \in DOMAIN sample : LowerTrim(sample[i]) \in TrueTokens \cup FalseTokens
    THEN "boolean"
  ELSE IF 10 * Cardinality({i \in DOMAIN sample : parseMultiFormatDate(zone, sample[i]).ok})
            >= 7 * Len(sample)
    THEN "date"
  ELSE IF 100 * Cardinality({i \in DOMAIN sample : LooksNumeric(sample[i])}) >= 85 * Len(sample)
    THEN "numeric"
  ELSE IF \/ 10 * Cardinality({ToStr(sample[i]) : i \in DOMAIN sample}) <= 3 * Len(sample)
          \/ distinctAll <= 30
    THEN "categorical"
  ELSE "text"

TypeOfNonNull(zone, nonNullValues) ==
  IF nonNullValues = <<>> THEN "text"
  ELSE TypeOfSample(zone, SubSeq(nonNullValues, 1, Min(Len(nonNullValues), 200)),
                    Cardinality({ToStr(nonNullValues[i]) : i \in DOMAIN nonNullValues}))

detectColumnType(zone, values) ==
  TypeOfNonNull(zone, SelectSeq(values, LAMBDA v : ~IsMissing(v)))

\* s.includes(p)
Includes(s, p) == \E i \in 1..(Len(s) - Len(p) + 1) : SubSeq(s, i, i + Len(p) - 1) = p
IncludesAny(s, patterns) == \E p \in patterns : Includes(s, p)
EndsWith(s, p) == Len(s) >= Len(p) /\ SubSeq(s, Len(s) - Len(p) + 1, Len(s)) = p
StartsWith(s, p) == Len(s) >= Len(p) /\ SubSeq(s, 1, Len(p)) = p

TimeSeriesPatterns ==
  { <<"r","e","v","e","n","u","e">>, <<"s","a","l","e","s">>, <<"a","m","o","u","n","t">>,
    <<"c","o","u","n","t">>, <<"t","o","t","a","l">>, <<"v","a","l","u","e">>,
    <<"m","e","t","r","i","c">>, <<"m","e","a","s","u","r","e","m","e","n","t">>,
    <<"r","e","a","d","i","n","g">>, <<"q","u","a","n","t","i","t","y">>,
    <<"u","n","i","t","s">>, <<"v","o","l","u","m","e">>, <<"r","a","t","e">>,
    <<"g","r","o","w","t","h">>, <<"c","h","a","n","g","e">>, <<"d","e","l","t","a">>,
    <<"d","a","i","l","y">>, <<"m","o","n","t","h","l","y">>, <<"w","e","e","k","l","y">>,
    <<"y","e","a","r","l","y">>, <<"b","a","l","a","n","c","e">>,
    <<"c","u","m","u","l","a","t","i","v","e">>, <<"r","u","n","n","i","n","g">> }

\* detectTimeSeriesColumn: more than 90% of all the values are present numbers
detectTimeSeriesColumn(name, values, dateColumns) ==
  /\ 10 * Cardinality({i \in DOMAIN values : ~IsMissing(values[i]) /\ ToNumber(values[i]).ok})
       > 9 * Len(values)
  /\ IncludesAny(toLowerCase(name), TimeSeriesPatterns) \/ dateColumns # <<>>

DerivedSuffixes ==
  { <<"_","y","e","a","r">>, <<"_","q","u","a","r","t","e","r">>, <<"_","m","o","n","t","h">>,
    <<"_","d","a","y","_","o","f","_","w","e","e","k">>,
    <<"_","m","o","n","t","h","_","n","a","m","e">> }
IdPatterns ==
  { <<"i","d">>, <<"_","i","d">>, <<"k","e","y">>, <<"c","o","d","e">>, <<"u","u","i","d">>,
    <<"g","u","i","d">>, <<"n","u","m","b","e","r">>, <<"n","o">>, <<"i","n","d","e","x">> }

IsIdentifierName(lowerName) ==
  \E p \in IdPatterns :
    lowerName = p \/ EndsWith(lowerName, <<"_">> \o p) \/ StartsWith(lowerName, p \o <<"_">>)

classifyColumn(name, values, dataType, dateColumns) ==
  IF IncludesAny(toLowerCase(name), DerivedSuffixes) THEN "derived"
  ELSE IF IsIdentifierName(toLowerCase(name)) /\ dataType # "date" THEN "identifier"
  ELSE IF dataType = "date" THEN "date"
  ELSE IF dataType = "boolean" THEN "categorical"
  ELSE IF dataType = "numeric"
    THEN (IF detectTimeSeriesColumn(name, values, dateColumns)
          THEN "time_series_numeric" ELSE "non_time_numeric")
  ELSE IF dataType = "categorical" THEN "categorical"
  ELSE "text"

\* [...values].sort((a, b) => a - b)
RECURSIVE InsertNum(_, _)
InsertNum(sorted, x) ==
  IF sorted = <<>> THEN <<x>>
  ELSE IF x < Head(sorted) THEN <<x>> \o sorted
  ELSE <<Head(sorted)>> \o InsertNum(Tail(sorted), x)

RECURSIVE SortNums(_)
SortNums(values) == IF values = <<>> THEN <<>> ELSE InsertNum(SortNums(Tail(values)), Head(values))

RECURSIVE Gcd(_, _)
Gcd(a, b) == IF b = 0 THEN a ELSE Gcd(b, a % b)

RECURSIVE GcdSeq(_)
GcdSeq(s) == IF s = <<>> THEN 0 ELSE Gcd(Abs(Head(s)), GcdSeq(Tail(s)))

\* Natural numbers of any size, as their digits in base 10000, lowest first:
\* the sums of squares and of cubes of the deviations exceed the machine
\* integers of TLC, while a double holds them
RECURSIVE BigOfNat(_)
BigOfNat(n) == IF n = 0 THEN <<>> ELSE <<n % 10000>> \o BigOfNat(n \div 10000)

RECURSIVE BigTrim(_)
BigTrim(a) ==
  IF a # <<>> /\ a[Len(a)] = 0 THEN BigTrim(SubSeq(a, 1, Len(a) - 1)) ELSE a

RECURSIVE BigAddCarry(_, _, _)
BigAddCarry(a, b, carry) ==
  IF a = <<>> /\ b = <<>> THEN BigOfNat(carry)
  ELSE IF a = <<>> THEN BigAddCarry(b, a, carry)
  ELSE IF b = <<>>
    THEN <<(Head(a) + carry) % 10000>> \o BigAddCarry(Tail(a), b, (Head(a) + carry) \div 10000)
  ELSE <<(Head(a) + Head(b) + carry) % 10000>>
       \o BigAddCarry(Tail(a), Tail(b), (Head(a) + Head(b) + carry) \div 10000)
BigAdd(a, b) == BigAddCarry(a, b, 0)

RECURSIVE BigMulDigit(_, _, _)
BigMulDigit(a, d, carry) ==
  IF a = <<>> THEN BigOfNat(carry)
  ELSE <<(Head(a) * d + carry) % 10000>>
       \o BigMulDigit(Tail(a), d, (Head(a) * d + carry) \div 10000)

RECURSIVE BigMul(_, _)
BigMul(a, b) ==
  IF b = <<>> THEN <<>>
  ELSE BigTrim(BigAdd(BigMulDigit(a, Head(b), 0), <<0>> \o BigMul(a, Tail(b))))

\* a < b, for numbers without leading zeros
RECURSIVE BigLessFromTop(_, _)
BigLessFromTop(a, b) ==
  IF a = <<>> THEN FALSE
  ELSE IF a[Len(a)] # b[Len(b)] THEN a[Len(a)] < b[Len(b)]
  ELSE BigLessFromTop(SubSeq(a, 1, Len(a) - 1), SubSeq(b, 1, Len(b) - 1))
BigLess(a, b) == IF Len(a) # Len(b) THEN Len(a) < Len(b) ELSE BigLessFromTop(a, b)

\* a - b for a >= b
RECURSIVE BigSubBorrow(_, _, _)
BigSubBorrow(a, b, borrow) ==
  IF a = <<>> THEN <<>>
  ELSE IF b = <<>>
    THEN <<(Head(a) - borrow + 10000) % 10000>>
         \o BigSubBorrow(Tail(a), b, IF Head(a) - borrow < 0 THEN 1 ELSE 0)
  ELSE <<(Head(a) - Head(b) - borrow + 10000) % 10000>>
       \o BigSubBorrow(Tail(a), Tail(b), IF Head(a) - Head(b) - borrow < 0 THEN 1 ELSE 0)
BigDistance(a, b) ==
  IF BigLess(a, b) THEN BigTrim(BigSubBorrow(b, a, 0)) ELSE BigTrim(BigSubBorrow(a, b, 0))

RECURSIVE BigSum(_)
BigSum(s) == IF s = <<>> THEN <<>> ELSE BigAdd(Head(s), BigSum(Tail(s)))

BigSquare(a) == BigMul(a, a)
BigCube(a) == BigMul(a, BigMul(a, a))

\* Math.abs(skewness) > 0.5, where skewness is the mean of ((v - mean) / stdDev)^3:
\* with e = the deviations v - mean on any common scale, A = sum e^2 and
\* B = sum e^3, it is 4 n B^2 > A^3 (stdDev > 0 is A > 0)
SkewedBy(n, sumSquares, absSumCubes) ==
  /\ sumSquares # <<>>
  /\ BigLess(BigCube(sumSquares), BigMulDigit(BigSquare(absSumCubes), 4 * n, 0))

\* the deviations n * v - sum, divided by their common divisor
ScaledBy(devs, g) == [i \in DOMAIN devs |-> IF g = 0 THEN 0 ELSE devs[i] \div g]
Deviations(values) ==
  ScaledBy([i \in DOMAIN values |-> Len(values) * values[i] - SumSeq(values)],
           GcdSeq([i \in DOMAIN values |-> Len(values) * values[i] - SumSeq(values)]))
CubeIf(keep, e) == IF keep THEN BigCube(BigOfNat(Abs(e))) ELSE <<>>
IsSkewedDevs(devs) ==
  SkewedBy(Len(devs),
           BigSum([i \in DOMAIN devs |-> BigSquare(BigOfNat(Abs(devs[i])))]),
           BigDistance(BigSum([i \in DOMAIN devs |-> CubeIf(devs[i] > 0, devs[i])]),
                       BigSum([i \in DOMAIN devs |-> CubeIf(devs[i] < 0, devs[i])])))

\* val < q1 - 1.5 * iqr || val > q3 + 1.5 * iqr
IsIqrOutlier(val, q1, q3) == 2 * val < 2 * q1 - 3 * (q3 - q1) \/ 2 * val > 2 * q3 + 3 * (q3 - q1)

\* median of a sorted array
MedianSorted(sorted) ==
  IF sorted = <<>> THEN 0
  ELSE IF Len(sorted) % 2 = 0
    THEN (sorted[Len(sorted) \div 2] + sorted[Len(sorted) \div 2 + 1]) \div 2
  ELSE sorted[Len(sorted) \div 2 + 1]

NoStats ==
  [n |-> 0, min |-> 0, max |-> 0, sum |-> 0, median |-> 0, q1 |-> 0, q3 |-> 0, iqr |-> 0,
   outlierCount |-> 0, isSkewed |-> FALSE]

StatsOfSorted(values, sorted, q1, q3) ==
  [n |-> Len(values), min |-> sorted[1], max |-> sorted[Len(sorted)], sum |-> SumSeq(values),
   median |-> MedianSorted(sorted), q1 |-> q1, q3 |-> q3, iqr |-> q3 - q1,
   outlierCount |-> Cardinality({i \in DOMAIN values : IsIqrOutlier(values[i], q1, q3)}),
   isSkewed |-> IsSkewedDevs(Deviations(values))]

SortedStats(values, sorted) ==
  StatsOfSorted(values, sorted, sorted[Len(sorted) \div 4 + 1], sorted[(3 * Len(sorted)) \div 4 + 1])

\* calculateNumericStats; the mean is kept as sum and n, the standard deviation
\* is used by no step of the model (outlierDetection is 'iqr' or 'none')
calculateNumericStats(values) ==
  IF values = <<>> THEN NoStats ELSE SortedStats(values, SortNums(values))

\* a.localeCompare(b) < 0 in the root collation, on the characters of the model:
\* blanks and punctuation come before digits, digits before letters, letters are
\* compared without case first, and a lower-case letter precedes its capital
CollationOrder == <<" ", "_", "-", ",", ".", "/", ":", "|">> \o DigitChars \o LowerChars
PrimaryWeight(c) == CHOOSE i \in DOMAIN CollationOrder : CollationOrder[i] = toLowerChar(c)
RECURSIVE PrimaryLess(_, _)
PrimaryLess(a, b) ==
  IF b = <<>> THEN FALSE
  ELSE IF a = <<>> THEN TRUE
  ELSE IF PrimaryWeight(Head(a)) = PrimaryWeight(Head(b)) THEN PrimaryLess(Tail(a), Tail(b))
  ELSE PrimaryWeight(Head(a)) < PrimaryWeight(Head(b))
RECURSIVE CaseLess(_, _)
CaseLess(a, b) ==
  IF a = <<>> \/ b = <<>> THEN FALSE
  ELSE IF Head(a) = Head(b) THEN CaseLess(Tail(a), Tail(b))
  ELSE IsLower(Head(a))
LocaleLess(a, b) ==
  PrimaryLess(a, b) \/ (~PrimaryLess(b, a) /\ Len(a) = Len(b) /\ CaseLess(a, b))

\* the canonical spellings of analyzeCategorical's commonMappings and their
\* variants in lower case
s_Male == <<"M","a","l","e">>
s_Female == <<"F","e","m","a","l","e">>
s_Unknown == <<"U","n","k","n","o","w","n">>
CommonMappings ==
  { [canonical |-> s_Male,
     variants |-> {<<"m">>, <<"m","a","l","e">>, <<"m","a","n">>, <<"b","o","y">>}],
    [canonical |-> s_Female,
     variants |-> {<<"f">>, <<"f","e","m","a","l","e">>, <<"w","o","m","a","n">>,
                   <<"g","i","r","l">>}],
    [canonical |-> <<"Y","e","s">>,
     variants |-> {<<"y">>, <<"y","e","s">>, <<"t","r","u","e">>, <<"1">>}],
    [canonical |-> <<"N","o">>,
     variants |-> {<<"n">>, <<"n","o">>, <<"f","a","l","s","e">>, <<"0">>}],
    [canonical |-> <<"A","c","t","i","v","e">>,
     variants |-> {<<"a","c","t","i","v","e">>, <<"e","n","a","b","l","e","d">>, <<"o","n">>}],
    [canonical |-> <<"I","n","a","c","t","i","v","e">>,
     variants |-> {<<"i","n","a","c","t","i","v","e">>, <<"d","i","s","a","b","l","e","d">>,
                   <<"o","f","f">>}] }

\* the canonical spelling the common mappings give val, <<>> when none does
CommonCanonical(val) ==
  IF \E m \in CommonMappings : trim(toLowerCase(val)) \in m.variants /\ val # m.canonical
  THEN (CHOOSE m \in CommonMappings : trim(toLowerCase(val)) \in m.variants).canonical
  ELSE <<>>

\* val.toLowerCase().trim().replace(/[^a-z0-9]/g, '')
GroupKey(val) == FilterChars(trim(toLowerCase(val)), AlnumLower)

\* a.charAt(0) === a.charAt(0).toUpperCase()
IsProper(a) == a = <<>> \/ toUpperChar(a[1]) = a[1]
\* the comparator of group.sort: more frequent first, then capitalised first,
\* then localeCompare
SortsBefore(a, b, counts) ==
  IF counts[a] # counts[b] THEN counts[a] > counts[b]
  ELSE IF IsProper(a) # IsProper(b) THEN IsProper(a)
  ELSE LocaleLess(a, b)
GroupCanonical(group, counts) ==
  CHOOSE c \in group : \A o \in group \ {c} : SortsBefore(c, o, counts)

ValueCounts(values, uniqueValues) ==
  [u \in uniqueValues |-> Cardinality({i \in DOMAIN values : values[i] = u})]

\* normalizedMappings[val], <<>> when val has no entry
MappingOf(val, uniqueValues, counts, group) ==
  IF CommonCanonical(val) # <<>> THEN CommonCanonical(val)
  ELSE IF Cardinality(group) > 1 /\ GroupCanonical(group, counts) # val
    THEN GroupCanonical(group, counts)
  ELSE <<>>

NormalizedMappings(uniqueValues, counts) ==
  [val \in {u \in uniqueValues :
              MappingOf(u, uniqueValues, counts,
                        {o \in uniqueValues : GroupKey(o) = GroupKey(u)}) # <<>>}
     |-> MappingOf(val, uniqueValues, counts,
                   {o \in uniqueValues : GroupKey(o) = GroupKey(val)})]

NoCategoricalInfo ==
  [present |-> FALSE, normalizedMappings |-> <<>>, missingCount |-> 0, totalRows |-> 1]

CategoricalOf(values, uniqueValues, totalRows) ==
  [present |-> TRUE,
   normalizedMappings |-> NormalizedMappings(uniqueValues, ValueCounts(values, uniqueValues)),
   missingCount |-> Cardinality({i \in DOMAIN values : trim(values[i]) = <<>>}),
   totalRows |-> totalRows]

\* analyzeCategorical(values, totalRows); missingPercentage is kept as
\* missingCount and totalRows
analyzeCategorical(values, totalRows) ==
  CategoricalOf(values, {values[i] : i \in {j \in DOMAIN values : trim(values[j]) # <<>>}},
                totalRows)

RECURSIVE MapParse(_, _)
MapParse(zone, values) ==
  IF values = <<>> THEN <<>>
  ELSE <<parseMultiFormatDate(zone, Head(values))>> \o MapParse(zone, Tail(values))

NoDateInfo == [present |-> FALSE, hasMedian |-> FALSE, medianDate |-> 0]
\* the median of the valid dates, from their sorted times
MedianDateOf(sortedTimes) ==
  [present |-> TRUE, hasMedian |-> sortedTimes # <<>>, medianDate |-> MedianSorted(sortedTimes)]
TimesOf(parsed) ==
  [i \in 1..Len(SelectSeq(parsed, LAMBDA d : d.ok)) |-> SelectSeq(parsed, LAMBDA d : d.ok)[i].t]
\* analyzeDate(values): the medianDate is what the pipeline reads
analyzeDate(zone, values) ==
  MedianDateOf(SortNums(TimesOf(MapParse(zone, SelectSeq(values, LAMBDA v : ~IsMissing(v))))))

\* nonNullValues.map(v => Number(String(v).replace(/,/g, ''))).filter(v => !isNaN(v))
NumbersOf(nonNullValues) ==
  [i \in 1..Len(SelectSeq(nonNullValues, LAMBDA v : StrToNumber(RemoveCommas(ToStr(v))).ok))
     |-> StrToNumber(RemoveCommas(ToStr(
           SelectSeq(nonNullValues, LAMBDA v : StrToNumber(RemoveCommas(ToStr(v))).ok)[i]))).n]

ProfileOf(zone, name, values, nonNullValues, dataType, classification) ==
  [name |-> name,
   dataType |-> dataType,
   classification |-> classification,
   nullCount |-> Len(values) - Len(nonNullValues),
   stats |-> IF dataType = "numeric" THEN calculateNumericStats(NumbersOf(nonNullValues))
             ELSE NoStats,
   categoricalInfo |->
     IF dataType \in {"categorical", "text", "boolean"}
     THEN analyzeCategorical([i \in DOMAIN nonNullValues |-> ToStr(nonNullValues[i])], Len(values))
     ELSE NoCategoricalInfo,
   dateInfo |-> IF dataType = "date" THEN analyzeDate(zone, values) ELSE NoDateInfo,
   isTimeSeries |-> classification = "time_series_numeric"]

TypedProfile(zone, name, values, dateColumns, dataType) ==
  ProfileOf(zone, name, values, SelectSeq(values, LAMBDA v : ~isEmpty(v)), dataType,
            classifyColumn(name, values, dataType, dateColumns))

\* profileColumn(name, values, dateColumns): the fields the pipeline reads (the
\* issues, the role, the unique count and the sample values are left out)
profileColumn(zone, name, values, dateColumns) ==
  TypedProfile(zone, name, values, dateColumns, detectColumnType(zone, values))

(***************************************************************************)
(* dataCleaner.ts: cleanDataAdvanced, step by step.  Each step is a        *)
(* function of the working rows (cleanedData) and gives the new rows and    *)
(* the action it logs; a detail line of an action is kept as its parts      *)
(* (column, count, what was done) and not as the sentence made of them.     *)
(***************************************************************************)
NoAction == <<>>
Action(type, count, details) == <<[type |-> type, count |-> count, details |-> details]>>
Detail(column, count, how, value) == [column |-> column, count |-> count, how |-> how, value |-> value]

\* row => row[col] for every row
ColumnValues(data, col) == [i \in DOMAIN data |-> Get(data[i], col)]

\* ---- Step 1: trim whitespace ----
\* value.trim().replace(/\s+/g, ' ')
TrimValue(v) == IF v.k = "str" THEN Str(CollapseSpaces(trim(v.s))) ELSE v
TrimRows(data) ==
  [i \in DOMAIN data |->
     [j \in DOMAIN data[i] |-> [key |-> data[i][j].key, val |-> TrimValue(data[i][j].val)]]]
\* the cells with trimmed !== value
TrimCount(data) ==
  SumSeq([i \in DOMAIN data |->
            Cardinality({j \in DOMAIN data[i] : TrimValue(data[i][j].val) # data[i][j].val})])
TrimAction(trimCount) ==
  IF trimCount > 0 THEN Action("trim_whitespace", trimCount, <<>>) ELSE NoAction

\* ---- Step 2: standardize column names ----
\* .replace(/[^a-z0-9]+/g, '_')
RECURSIVE Underscore(_)
Underscore(s) ==
  IF s = <<>> THEN <<>>
  ELSE IF Head(s) \in AlnumLower THEN <<Head(s)>> \o Underscore(Tail(s))
  ELSE IF Len(s) >= 2 /\ s[2] \notin AlnumLower THEN Underscore(Tail(s))
  ELSE <<"_">> \o Underscore(Tail(s))
\* .replace(/^_+|_+$/g, '').replace(/_+/g, '_')
RECURSIVE StripUnderscores(_)
StripUnderscores(s) ==
  IF s # <<>> /\ Head(s) = "_" THEN StripUnderscores(Tail(s))
  ELSE IF s # <<>> /\ s[Len(s)] = "_" THEN StripUnderscores(SubSeq(s, 1, Len(s) - 1))
  ELSE s
standardizeColumnName(name) == StripUnderscores(Underscore(toLowerCase(trim(name))))

\* columnMapping[key] || key, columnMapping holding the keys of the first row
NewName(firstKeys, key) ==
  IF key \in SetOf(firstKeys) /\ standardizeColumnName(key) # <<>>
  THEN standardizeColumnName(key) ELSE key
RECURSIVE RenameRow(_, _, _)
RenameRow(firstKeys, row, acc) ==
  IF row = <<>> THEN acc
  ELSE RenameRow(firstKeys, Tail(row), Put(acc, NewName(firstKeys, Head(row).key), Head(row).val))
\* the columns of the first row that get a new name
Renamed(firstKeys) == SelectSeq(firstKeys, LAMBDA col : standardizeColumnName(col) # col)
RenameDetails(renamed) ==
  [i \in 1..Min(Len(renamed), 10) |->
     Detail(renamed[i], 1, "renamed", Str(standardizeColumnName(renamed[i])))]
RenameRows(data, firstKeys, renamed) ==
  IF renamed = <<>> THEN data
  ELSE [i \in DOMAIN data |-> RenameRow(firstKeys, data[i], <<>>)]
RenameAction(renamed) ==
  IF renamed = <<>> THEN NoAction
  ELSE Action("rename_columns", Len(renamed), RenameDetails(renamed))

\* ---- Step 3: profile the columns of the first row ----
\* the names of the columns whose initial profile has dataType 'date'
DateColumnNames(zone, data, columns) ==
  SelectSeq(columns, LAMBDA col : detectColumnType(zone, ColumnValues(data, col)) = "date")
ProfilesWith(zone, data, columns, dateColumnNames) ==
  [c \in DOMAIN columns |->
     profileColumn(zone, columns[c], ColumnValues(data, columns[c]), dateColumnNames)]
ColumnProfiles(zone, data) ==
  ProfilesWith(zone, data, Keys(data[1]), DateColumnNames(zone, data, Keys(data[1])))

\* ---- Step 4: remove duplicates ----
\* JSON.stringify of a cell and of a row: a key whose value is undefined is
\* left out
StringifyValue(v) ==
  CASE v.k = "str" -> <<"\"">> \o v.s \o <<"\"">>
    [] v.k = "num" -> NumToStr(v.n)
    [] v.k = "bool" -> (IF v.n = 1 THEN s_true ELSE s_false)
    [] OTHER -> s_null
StringifyEntries(entries) ==
  <<"{">> \o Join([j \in DOMAIN entries |->
                     <<"\"">> \o entries[j].key \o <<"\"", ":">> \o StringifyValue(entries[j].val)],
                  <<",">>) \o <<"}">>
JSONstringify(row) == StringifyEntries(SelectSeq(row, LAMBDA e : e.val.k # "undef"))

\* cleanedData.filter(row => first row with its key)
RECURSIVE DedupFrom(_, _)
DedupFrom(data, seen) ==
  IF data = <<>> THEN <<>>
  ELSE IF JSONstringify(Head(data)) \in seen THEN DedupFrom(Tail(data), seen)
  ELSE <<Head(data)>> \o DedupFrom(Tail(data), seen \cup {JSONstringify(Head(data))})
\* a faulty variant: the removal of duplicates is reported twice
DedupAction_twice(removedCount) ==
  IF removedCount > 0
  THEN Action("remove_duplicates", removedCount, <<>>)
         \o Action("remove_duplicates", removedCount, <<>>)
  ELSE NoAction

DedupAction(removedCount) ==
  IF removedCount > 0 THEN Action("remove_duplicates", removedCount, <<>>) ELSE NoAction

\* the profiles of a data type, and the detail lines with a positive count
OfType(profiles, types) == SelectSeq(profiles, LAMBDA pr : pr.dataType \in types)
Positive(details) == SelectSeq(details, LAMBDA d : d.count > 0)
\* row[col] = cell(row[col]) for every row
\* (a row without the column gets it only when a value is assigned)
SetColumn(data, col, cell(_)) ==
  [i \in DOMAIN data |->
     IF ~HasKey(data[i], col) /\ cell(Undefined) = Undefined THEN data[i]
     ELSE Put(data[i], col, cell(Get(data[i], col)))]
\* the rows whose cell of the column is one of the counted ones
CountColumn(data, col, counted(_)) == Cardinality({i \in DOMAIN data : counted(Get(data[i], col))})

\* ---- Step 5: parse and fix dates ----
MinOf(S) == CHOOSE m \in S : \A x \in S : m <= x
\* filledDates[i]: the parsed date, or the one forwardFillDates, backwardFillDates
\* or the median rule puts there; fallback is medianDate, or new Date() without one
FillTime(imputation, parsed, i, fallback) ==
  IF parsed[i].ok THEN parsed[i].t
  ELSE IF imputation = "forward_fill" /\ \E j \in 1..(i - 1) : parsed[j].ok
    THEN parsed[MaxOf({j \in 1..(i - 1) : parsed[j].ok})].t
  ELSE IF imputation = "backward_fill" /\ \E j \in (i + 1)..Len(parsed) : parsed[j].ok
    THEN parsed[MinOf({j \in (i + 1)..Len(parsed) : parsed[j].ok})].t
  ELSE fallback

MedianOrNow(profile, now) ==
  IF profile.dateInfo.hasMedian THEN profile.dateInfo.medianDate ELSE now

FixParsed(data, col, imputation, parsed, fallback) ==
  [i \in DOMAIN data |->
     Put(data[i], col, Str(ISODay(FillTime(imputation, parsed, i, fallback))))]
FixDateColumn(zone, now, imputation, data, profile) ==
  FixParsed(data, profile.name, imputation,
            MapParse(zone, ColumnValues(data, profile.name)), MedianOrNow(profile, now))
\* fixedCount of a date column
FixedCount(zone, data, col) ==
  CountColumn(data, col, LAMBDA v : isEmpty(v) \/ ~parseMultiFormatDate(zone, v).ok)

RECURSIVE FixDateColumns(_, _, _, _, _)
FixDateColumns(zone, now, imputation, data, dateProfiles) ==
  IF dateProfiles = <<>> THEN data
  ELSE FixDateColumns(zone, now, imputation,
                      FixDateColumn(zone, now, imputation, data, Head(dateProfiles)),
                      Tail(dateProfiles))
FixDateDetails(zone, data, dateProfiles) ==
  Positive([p \in DOMAIN dateProfiles |->
              Detail(dateProfiles[p].name, FixedCount(zone, data, dateProfiles[p].name),
                     "fixed", Null)])
FixDatesAction(details) ==
  IF details = <<>> THEN NoAction
  ELSE Action("fix_dates", SumSeq([d \in DOMAIN details |-> details[d].count]), details)

\* ---- Step 6: auto-convert data types ----
\* parseBoolean(value): ok is FALSE for null
parseBoolean(v) ==
  IF IsMissing(v) THEN [ok |-> FALSE, b |-> FALSE]
  ELSE IF LowerTrim(v) \in TrueTokens THEN [ok |-> TRUE, b |-> TRUE]
  ELSE IF LowerTrim(v) \in FalseTokens THEN [ok |-> TRUE, b |-> FALSE]
  ELSE [ok |-> FALSE, b |-> FALSE]

\* Number(String(val).replace(/,/g, '')) of a present value
CellNumber(v) == StrToNumber(RemoveCommas(ToStr(v)))
ConvertCell(dataType, v) ==
  IF dataType = "numeric"
    THEN (IF ~IsMissing(v) /\ CellNumber(v).ok THEN NumC(CellNumber(v).n) ELSE v)
  ELSE IF dataType = "boolean"
    THEN (IF parseBoolean(v).ok THEN Bool(parseBoolean(v).b) ELSE v)
  ELSE v
\* the cells counted in `converted`
ConvertCounted(dataType, v) ==
  IF dataType = "numeric" THEN ~IsMissing(v) /\ CellNumber(v).ok /\ v.k = "str"
  ELSE dataType = "boolean" /\ parseBoolean(v).ok

RECURSIVE ConvertColumns(_, _)
ConvertColumns(data, profiles) ==
  IF profiles = <<>> THEN data
  ELSE ConvertColumns(SetColumn(data, Head(profiles).name,
                                LAMBDA v : ConvertCell(Head(profiles).dataType, v)),
                      Tail(profiles))
ConvertDetails(data, profiles) ==
  Positive([p \in DOMAIN profiles |->
              Detail(profiles[p].name,
                     CountColumn(data, profiles[p].name,
                                 LAMBDA v : ConvertCounted(profiles[p].dataType, v)),
                     profiles[p].dataType, Null)])
ConvertAction(details) ==
  IF details = <<>> THEN NoAction ELSE Action("convert_types", Len(details), details)

\* ---- Step 7: normalize categorical values, gender integrity rule ----
ProtectedColumnPatterns == {<<"g","e","n","d","e","r">>, <<"s","e","x">>}
isGenderColumn(name) == IncludesAny(toLowerCase(name), ProtectedColumnPatterns)

\* genderExplicitMappings[strVal], <<>> when it has no such key
GenderExplicit(strVal) ==
  IF strVal \in {<<"m">>, <<"m","a","l","e">>, <<"M">>, <<"M","A","L","E">>, s_Male} THEN s_Male
  ELSE IF strVal \in {<<"f">>, <<"f","e","m","a","l","e">>, <<"F">>,
                      <<"F","E","M","A","L","E">>, s_Female} THEN s_Female
  ELSE <<>>

\* String(val || '')
StrOrEmpty(v) == IF Falsy(v) THEN <<>> ELSE ToStr(v)

GenderCell(v) ==
  IF isEmpty(v) THEN Str(s_Unknown)
  ELSE IF GenderExplicit(trim(StrOrEmpty(v))) # <<>>
    THEN (IF trim(StrOrEmpty(v)) # GenderExplicit(trim(StrOrEmpty(v)))
          THEN Str(GenderExplicit(trim(StrOrEmpty(v)))) ELSE v)
  ELSE Str(s_Unknown)
\* the cells counted in `normalized` by the gender rule
GenderCounted(v) ==
  \/ isEmpty(v)
  \/ GenderExplicit(trim(StrOrEmpty(v))) = <<>>
  \/ trim(StrOrEmpty(v)) # GenderExplicit(trim(StrOrEmpty(v)))

\* the standard normalization: mappings[String(row[col] || '')]
Mapped(mappings, v) == StrOrEmpty(v) \in DOMAIN mappings
MappedCell(mappings, v) == IF Mapped(mappings, v) THEN Str(mappings[StrOrEmpty(v)]) ELSE v

NormalizeCell(profile, v) ==
  IF isGenderColumn(profile.name) THEN GenderCell(v)
  ELSE MappedCell(profile.categoricalInfo.normalizedMappings, v)
NormalizeCounted(profile, v) ==
  IF isGenderColumn(profile.name) THEN GenderCounted(v)
  ELSE Mapped(profile.categoricalInfo.normalizedMappings, v)

\* the profiles the step looks at
Normalizable(profiles) ==
  SelectSeq(profiles, LAMBDA pr : /\ pr.dataType \in {"categorical", "text", "boolean"}
                                  /\ pr.categoricalInfo.present)
RECURSIVE NormalizeColumns(_, _)
NormalizeColumns(data, profiles) ==
  IF profiles = <<>> THEN data
  ELSE NormalizeColumns(SetColumn(data, Head(profiles).name,
                                  LAMBDA v : NormalizeCell(Head(profiles), v)),
                        Tail(profiles))
NormalizeDetails(data, profiles) ==
  Positive([p \in DOMAIN profiles |->
              Detail(profiles[p].name,
                     CountColumn(data, profiles[p].name,
                                 LAMBDA v : NormalizeCounted(profiles[p], v)),
                     IF isGenderColumn(profiles[p].name) THEN "gender" ELSE "normalized", Null)])
NormalizeAction(details) ==
  IF details = <<>> THEN NoAction ELSE Action("normalize_categorical", Len(details), details)

\* ---- Step 8: handle outliers (outlierDetection 'iqr') ----
\* twice the bounds q1 - t * iqr and q3 + t * iqr, the threshold t given in halves
LowerBound2(stats, t2) == 2 * stats.q1 - t2 * stats.iqr
UpperBound2(stats, t2) == 2 * stats.q3 + t2 * stats.iqr
Below(v, lb2) == ToNumber(v).ok /\ 2 * ToNumber(v).n < lb2
Above(v, ub2) == ToNumber(v).ok /\ 2 * ToNumber(v).n > ub2

\* Math.round(bound * 100) / 100 for the cells outside the bounds
CapCell(v, lb2, ub2) ==
  IF Below(v, lb2) THEN NumC(RoundDiv(lb2, 2))
  ELSE IF Above(v, ub2) THEN NumC(RoundDiv(ub2, 2))
  ELSE v

s_outlier == <<"_","o","u","t","l","i","e","r">>

OutlierRows(data, col, handling, lb2, ub2) ==
  IF handling = "cap" THEN SetColumn(data, col, LAMBDA v : CapCell(v, lb2, ub2))
  ELSE IF handling = "remove"
    THEN SelectSeq(data, LAMBDA row : ~Below(Get(row, col), lb2) /\ ~Above(Get(row, col), ub2))
  ELSE IF handling = "flag"
    THEN [i \in DOMAIN data |->
            Put(data[i], col \o s_outlier,
                Bool(Below(Get(data[i], col), lb2) \/ Above(Get(data[i], col), ub2)))]
  ELSE data
\* `handled`: with 'cap', 'remove' and 'flag' alike, the cells outside the bounds
OutlierHandled(data, col, handling, lb2, ub2) ==
  IF handling \in {"cap", "remove", "flag"}
  THEN CountColumn(data, col, LAMBDA v : Below(v, lb2) \/ Above(v, ub2))
  ELSE 0

OutlierColumn(st, col, handling, lb2, ub2) ==
  [data |-> OutlierRows(st.data, col, handling, lb2, ub2),
   details |-> st.details \o
               Positive(<<Detail(col, OutlierHandled(st.data, col, handling, lb2, ub2),
                                 handling, Null)>>)]

RECURSIVE OutlierColumns(_, _, _)
OutlierColumns(config, profiles, st) ==
  IF profiles = <<>> THEN st
  ELSE IF Head(profiles).dataType = "numeric" /\ Head(profiles).stats.outlierCount > 0
    THEN OutlierColumns(config, Tail(profiles),
                        OutlierColumn(st, Head(profiles).name, config.outlierHandling,
                                      LowerBound2(Head(profiles).stats, config.outlierThreshold2),
                                      UpperBound2(Head(profiles).stats, config.outlierThreshold2)))
  ELSE OutlierColumns(config, Tail(profiles), st)
OutlierAction(details) ==
  IF details = <<>> THEN NoAction ELSE Action("handle_outliers", Len(details), details)

\* ---- Step 9: handle missing values ----
\* mode(values): the first value, in order of first appearance, with the
\* highest count
Occurrences(values, x) == Cardinality({i \in DOMAIN values : values[i] = x})
ModeIndex(values) ==
  CHOOSE i \in DOMAIN values :
    /\ \A j \in DOMAIN values : Occurrences(values, values[j]) <= Occurrences(values, values[i])
    /\ \A j \in 1..(i - 1) : Occurrences(values, values[j]) < Occurrences(values, values[i])

\* median(values)
median(values) == MedianSorted(SortNums(values))

\* interpolateNumeric on (number | null)[], a null being [ok |-> FALSE]
RECURSIVE ForwardFill(_, _)
ForwardFill(result, i) ==
  IF i > Len(result) THEN result
  ELSE IF ~result[i].ok /\ result[i - 1].ok
    THEN ForwardFill([result EXCEPT ![i] = result[i - 1]], i + 1)
  ELSE ForwardFill(result, i + 1)
RECURSIVE BackwardFill(_, _)
BackwardFill(result, i) ==
  IF i < 1 THEN result
  ELSE IF ~result[i].ok /\ result[i + 1].ok
    THEN BackwardFill([result EXCEPT ![i] = result[i + 1]], i - 1)
  ELSE BackwardFill(result, i - 1)
\* startVal + ((endVal - startVal) * (i - startIdx)) / steps, to the hundredth
Linear(result, startIdx, endIdx, i) ==
  [ok |-> TRUE,
   n |-> result[startIdx].n
         + RoundDiv((result[endIdx].n - result[startIdx].n) * (i - startIdx), endIdx - startIdx)]
RECURSIVE FillGaps(_, _)
FillGaps(result, i) ==
  IF i > Len(result) THEN result
  ELSE IF /\ ~result[i].ok
          /\ \E a \in 1..(i - 1) : result[a].ok
          /\ \E b \in (i + 1)..Len(result) : result[b].ok
    THEN FillGaps([result EXCEPT ![i] =
                     Linear(result, MaxOf({a \in 1..(i - 1) : result[a].ok}),
                            MinOf({b \in (i + 1)..Len(result) : result[b].ok}), i)], i + 1)
  ELSE FillGaps(result, i + 1)
interpolateNumeric(values) ==
  [i \in DOMAIN values |->
     FillGaps(BackwardFill(ForwardFill(values, 2), Len(values) - 1), 1)[i].n]

\* numericWithNulls
NumberOrNull(v) == IF isEmpty(v) \/ ~ToNumber(v).ok THEN NaN ELSE ToNumber(v)
InterpolateColumn(data, col, interpolated) ==
  [i \in DOMAIN data |->
     IF isEmpty(Get(data[i], col)) THEN Put(data[i], col, NumC(interpolated[i])) ELSE data[i]]

\* nonNullValues.map(v => Number(v)).filter(v => !isNaN(v))
PresentNumbers(values) ==
  [i \in 1..Len(SelectSeq(values, LAMBDA v : ~isEmpty(v) /\ ToNumber(v).ok)) |->
     ToNumber(SelectSeq(values, LAMBDA v : ~isEmpty(v) /\ ToNumber(v).ok)[i]).n]
PresentStrings(values) ==
  [i \in 1..Len(SelectSeq(values, LAMBDA v : ~isEmpty(v))) |->
     ToStr(SelectSeq(values, LAMBDA v : ~isEmpty(v))[i])]

NumericFill(imputation, isSkewed, numericValues) ==
  IF imputation = "mean"
    THEN (IF isSkewed THEN NumC(median(numericValues))
          ELSE IF numericValues # <<>>
            THEN NumC(RoundDiv(SumSeq(numericValues), Len(numericValues)))
          ELSE NumC(0))
  ELSE IF imputation \in {"median", "interpolate"} THEN NumC(median(numericValues))
  ELSE IF imputation = "mode"
    THEN (IF numericValues = <<>> THEN NumC(0) ELSE NumC(numericValues[ModeIndex(numericValues)]))
  ELSE IF imputation = "zero" THEN NumC(0)
  ELSE Undefined

CategoricalFill(imputation, info, strings) ==
  IF 100 * info.missingCount > 30 * info.totalRows \/ imputation = "unknown" \/ strings = <<>>
  THEN Str(s_Unknown)
  ELSE Str(strings[ModeIndex(strings)])

\* fillValue of a column that is not interpolated; Undefined when none is set
FillValue(config, profile, values) ==
  IF profile.dataType = "numeric"
    THEN NumericFill(config.numericImputation, profile.stats.isSkewed, PresentNumbers(values))
  ELSE IF profile.dataType \in {"categorical", "text"}
    THEN CategoricalFill(config.categoricalImputation, profile.categoricalInfo,
                         PresentStrings(values))
  ELSE IF profile.dataType = "boolean" THEN Bool(FALSE)
  ELSE Undefined

Interpolated(config, profile) ==
  profile.dataType = "numeric" /\ profile.isTimeSeries /\ config.enableTimeSeriesInterpolation

FillRows(data, col, fillValue, enforce) ==
  IF fillValue # Undefined /\ enforce
  THEN SetColumn(data, col, LAMBDA v : IF isEmpty(v) THEN fillValue ELSE v)
  ELSE data

MissingRows(config, profile, data, values) ==
  IF Interpolated(config, profile)
  THEN InterpolateColumn(data, profile.name,
                         interpolateNumeric([i \in DOMAIN values |-> NumberOrNull(values[i])]))
  ELSE FillRows(data, profile.name, FillValue(config, profile, values), config.enforceZeroBlank)
MissingDetail(config, profile, data, values) ==
  IF Interpolated(config, profile)
    THEN Detail(profile.name, CountColumn(data, profile.name, isEmpty), "interpolated", Null)
  ELSE IF FillValue(config, profile, values) # Undefined /\ config.enforceZeroBlank
    THEN Detail(profile.name, CountColumn(data, profile.name, isEmpty), "filled",
                FillValue(config, profile, values))
  ELSE Detail(profile.name, 0, "none", Null)

MissingColumn(config, profile, st, values) ==
  [data |-> MissingRows(config, profile, st.data, values),
   details |-> st.details \o Positive(<<MissingDetail(config, profile, st.data, values)>>)]

RECURSIVE MissingColumns(_, _, _)
MissingColumns(config, profiles, st) ==
  IF profiles = <<>> THEN st
  ELSE IF Head(profiles).nullCount = 0 THEN MissingColumns(config, Tail(profiles), st)
  ELSE MissingColumns(config, Tail(profiles),
                      MissingColumn(config, Head(profiles), st,
                                    ColumnValues(st.data, Head(profiles).name)))

\* the rows kept by the 'remove' option: no own value is empty
Complete(data) == SelectSeq(data, LAMBDA row : \A j \in DOMAIN row : ~isEmpty(row[j].val))
RemoveIncomplete(config, st) ==
  IF config.numericImputation = "remove" \/ config.categoricalImputation = "remove"
  THEN [data |-> Complete(st.data),
        details |-> st.details \o
                    Positive(<<Detail(<<>>, Len(st.data) - Len(Complete(st.data)), "removed", Null)>>)]
  ELSE st
MissingAction(details) ==
  IF details = <<>> THEN NoAction ELSE Action("handle_missing", Len(details), details)

\* ---- Step 10: derived date columns ----
MonthNames ==
  << <<"J","a","n","u","a","r","y">>, <<"F","e","b","r","u","a","r","y">>,
     <<"M","a","r","c","h">>, <<"A","p","r","i","l">>, <<"M","a","y">>, <<"J","u","n","e">>,
     <<"J","u","l","y">>, <<"A","u","g","u","s","t">>,
     <<"S","e","p","t","e","m","b","e","r">>, <<"O","c","t","o","b","e","r">>,
     <<"N","o","v","e","m","b","e","r">>, <<"D","e","c","e","m","b","e","r">> >>
DayNames ==
  << <<"S","u","n","d","a","y">>, <<"M","o","n","d","a","y">>, <<"T","u","e","s","d","a","y">>,
     <<"W","e","d","n","e","s","d","a","y">>, <<"T","h","u","r","s","d","a","y">>,
     <<"F","r","i","d","a","y">>, <<"S","a","t","u","r","d","a","y">> >>
DerivedNames(col) ==
  << col \o <<"_","y","e","a","r">>, col \o <<"_","q","u","a","r","t","e","r">>,
     col \o <<"_","m","o","n","t","h">>, col \o <<"_","m","o","n","t","h","_","n","a","m","e">>,
     col \o <<"_","d","a","y","_","o","f","_","w","e","e","k">> >>

\* year, quarter, month, month name and day of week of a Date, by the local getters
DateParts(zone, t) ==
  << Num(getFullYear(zone, t)),
     Str(<<"Q", DigitChars[(getMonth1(zone, t) - 1) \div 3 + 2]>>),
     Num(getMonth1(zone, t)),
     Str(MonthNames[getMonth1(zone, t)]),
     Str(DayNames[getDay(zone, t) + 1]) >>

RECURSIVE PutAll(_, _, _)
PutAll(row, names, values) ==
  IF names = <<>> THEN row
  ELSE PutAll(Put(row, Head(names), Head(values)), Tail(names), Tail(values))

DerivedOf(zone, parsed, fallback) == DateParts(zone, IF parsed.ok THEN parsed.t ELSE fallback)
DeriveColumn(zone, now, data, profile) ==
  [i \in DOMAIN data |->
     PutAll(data[i], DerivedNames(profile.name),
            DerivedOf(zone, parseMultiFormatDate(zone, Get(data[i], profile.name)),
                      MedianOrNow(profile, now)))]
RECURSIVE DeriveColumns(_, _, _, _)
DeriveColumns(zone, now, data, dateProfiles) ==
  IF dateProfiles = <<>> THEN data
  ELSE DeriveColumns(zone, now, DeriveColumn(zone, now, data, Head(dateProfiles)),
                     Tail(dateProfiles))
RECURSIVE DerivedColumns(_)
DerivedColumns(dateProfiles) ==
  IF dateProfiles = <<>> THEN <<>>
  ELSE DerivedNames(Head(dateProfiles).name) \o DerivedColumns(Tail(dateProfiles))
DerivedAction(derivedColumns) ==
  IF derivedColumns = <<>> THEN NoAction
  ELSE Action("create_derived", Len(derivedColumns),
              [d \in DOMAIN derivedColumns |-> Detail(derivedColumns[d], 1, "derived", Null)])

\* ---- Step 11: validate ranges ----
PositivePatterns ==
  { <<"p","r","i","c","e">>, <<"c","o","s","t">>, <<"a","m","o","u","n","t">>,
    <<"q","u","a","n","t","i","t","y">>, <<"q","t","y">>, <<"c","o","u","n","t">>,
    <<"a","g","e">>, <<"r","e","v","e","n","u","e">>, <<"s","a","l","e","s">>,
    <<"u","n","i","t","s">>, <<"w","e","i","g","h","t">>, <<"h","e","i","g","h","t">>,
    <<"w","i","d","t","h">>, <<"l","e","n","g","t","h">>, <<"s","a","l","a","r","y">> }
PercentPatterns == {<<"p","e","r","c","e","n","t">>, <<"p","c","t">>, <<"r","a","t","e">>}

Negative(v) == ToNumber(v).ok /\ ToNumber(v).n < 0
Over(v, limit) == ToNumber(v).ok /\ ToNumber(v).n > limit * 100

\* one of the three checks of a numeric column: its rows and its detail line
RangeCheck(st, col, applies, wrong(_), fix(_), how) ==
  IF applies
  THEN [data |-> SetColumn(st.data, col, LAMBDA v : IF wrong(v) THEN fix(v) ELSE v),
        details |-> st.details \o Positive(<<Detail(col, CountColumn(st.data, col, wrong), how, Null)>>)]
  ELSE st

RangeColumn(st, col, name) ==
  RangeCheck(
    RangeCheck(
      RangeCheck(st, col, IncludesAny(name, PositivePatterns),
                 Negative, LAMBDA v : NumC(Abs(ToNumber(v).n)), "positive"),
      col, IncludesAny(name, PercentPatterns),
      LAMBDA v : Over(v, 100), LAMBDA v : Num(100), "percent"),
    col, Includes(name, <<"a","g","e">>),
    LAMBDA v : Over(v, 120) \/ Negative(v),
    LAMBDA v : IF Over(v, 120) THEN Num(120) ELSE Num(0), "age")

RECURSIVE RangeColumns(_, _)
RangeColumns(profiles, st) ==
  IF profiles = <<>> THEN st
  ELSE IF Head(profiles).dataType = "numeric"
    THEN RangeColumns(Tail(profiles),
                      RangeColumn(st, Head(profiles).name, toLowerCase(Head(profiles).name)))
  ELSE RangeColumns(Tail(profiles), st)
RangeAction(details) ==
  IF details = <<>> THEN NoAction ELSE Action("validate_ranges", Len(details), details)

\* ---- Step 12: final zero-blank check ----
\* the data type of the profile named key, "" when no profile has the name
TypeOfColumn(profiles, key) ==
  IF \E p \in DOMAIN profiles : profiles[p].name = key
  THEN profiles[MinOf({p \in DOMAIN profiles : profiles[p].name = key})].dataType
  ELSE ""
BlankDefault(dataType, now) ==
  IF dataType = "numeric" THEN Num(0)
  ELSE IF dataType = "date" THEN Str(ISODay(now))
  ELSE Str(s_Unknown)
\* only the keys a row has are looked at
SweepRows(data, profiles, now) ==
  [i \in DOMAIN data |->
     [j \in DOMAIN data[i] |->
        IF isEmpty(data[i][j].val)
        THEN [key |-> data[i][j].key,
              val |-> BlankDefault(TypeOfColumn(profiles, data[i][j].key), now)]
        ELSE data[i][j]]]
BlanksFixed(data) ==
  SumSeq([i \in DOMAIN data |-> Cardinality({j \in DOMAIN data[i] : isEmpty(data[i][j].val)})])
SweepAction(blanksFixed) ==
  IF blanksFixed > 0 THEN Action("zero_blank_enforcement", blanksFixed, <<>>) ELSE NoAction

\* ---- the summary and the returned value ----
\* actions.find(a => a.type === type)?.count || 0
CountOf(actions, type) ==
  IF \E a \in DOMAIN actions : actions[a].type = type
  THEN actions[MinOf({a \in DOMAIN actions : actions[a].type = type})].count
  ELSE 0
Summary(input, data, actions, derivedColumns) ==
  [rowsBefore |-> Len(input),
   rowsAfter |-> Len(data),
   columnsBefore |-> Len(input[1]),
   columnsAfter |-> IF data = <<>> THEN 0 ELSE Len(data[1]),
   duplicatesRemoved |-> CountOf(actions, "remove_duplicates"),
   missingValuesHandled |-> CountOf(actions, "handle_missing"),
   outliersHandled |-> CountOf(actions, "handle_outliers"),
   columnsRenamed |-> CountOf(actions, "rename_columns"),
   categoricalNormalized |-> CountOf(actions, "normalize_categorical"),
   typesConverted |-> CountOf(actions, "convert_types"),
   derivedColumnsCreated |-> Len(derivedColumns),
   datesFixed |-> CountOf(actions, "fix_dates"),
   totalChanges |-> SumSeq([a \in DOMAIN actions |-> actions[a].count])]
EmptySummary ==
  [rowsBefore |-> 0, rowsAfter |-> 0, columnsBefore |-> 0, columnsAfter |-> 0,
   duplicatesRemoved |-> 0, missingValuesHandled |-> 0, outliersHandled |-> 0,
   columnsRenamed |-> 0, categoricalNormalized |-> 0, typesConverted |-> 0,
   derivedColumnsCreated |-> 0, datesFixed |-> 0, totalChanges |-> 0]
\* what the call returns (the re-profiled columns and the suggestions for the
\* charts are left out: no step reads them)
CleaningResult(input, data, actions, derivedColumns, summary) ==
  [data |-> data, originalData |-> input, actions |-> actions,
   derivedColumns |-> derivedColumns, summary |-> summary]
EmptyResult == CleaningResult(<<>>, <<>>, <<>>, <<>>, EmptySummary)

\* ---- the steps of one call ----
\* the copy of the rows, or the early return for no rows
\* ---- the row objects ----
\* cOwner[k] = i when row k of cleanedData is the caller's i-th row (one object,
\* so that a write to the one is a write to the other), 0 when it is an object
\* the call has made
\* a faulty variant: cleanedData holds the caller's rows themselves
CopyOwners_sameObjects(rows) == [i \in DOMAIN rows |-> i]
\* let cleanedData = data.map(row => ({ ...row }))
CopyOwners(rows) == [i \in DOMAIN rows |-> 0]
\* cleanedData.map(row => { const newRow = {}; ...; return newRow })
NewOwners(rows) == [i \in DOMAIN rows |-> 0]

\* the caller's rows after cleanedData.forEach(row => { row[...] = ... })
WrittenThrough(caller, owners, rows) ==
  [i \in DOMAIN caller |->
     IF \E k \in DOMAIN owners : owners[k] = i
     THEN rows[CHOOSE k \in DOMAIN owners : owners[k] = i] ELSE caller[i]]

\* the owners of the rows that cleanedData.filter(...) keeps (rows with equal
\* cells are kept or dropped together, but for the first of a set of duplicates)
RECURSIVE KeptOwners(_, _, _)
KeptOwners(before, after, owners) ==
  IF after = <<>> \/ before = <<>> THEN <<>>
  ELSE IF Head(before) = Head(after)
    THEN <<Head(owners)>> \o KeptOwners(Tail(before), Tail(after), Tail(owners))
  ELSE KeptOwners(Tail(before), after, Tail(owners))

\* a step that writes into the rows of cleanedData or filters them: the
\* owners of its rows and the caller's rows after it
StepOwners(owners, before, after) ==
  IF Len(after) = Len(before) THEN owners ELSE KeptOwners(before, after, owners)
StepCaller(caller, owners, before, after) ==
  IF Len(after) = Len(before) THEN WrittenThrough(caller, owners, after) ELSE caller

Begin ==
  /\ cpc = "start"
  /\ IF cInput = <<>>
     THEN cpc' = "done" /\ cResult' = EmptyResult
     ELSE cpc' = "trim" /\ cResult' = cResult
  /\ cData' = cInput
  /\ cOwner' = CopyOwners(cInput)
  /\ UNCHANGED <<cCaller, cProfiles, cActions, cDerived, NotClean>>

Step1Trim ==
  /\ cpc = "trim"
  /\ cpc' = "rename"
  /\ cData' = IF cConfig.trimWhitespace THEN TrimRows(cData) ELSE cData
  /\ cOwner' = IF cConfig.trimWhitespace THEN NewOwners(cData) ELSE cOwner
  /\ cCaller' = cCaller
  /\ cActions' = cActions \o (IF cConfig.trimWhitespace THEN TrimAction(TrimCount(cData))
                              ELSE NoAction)
  /\ UNCHANGED <<cProfiles, cDerived, cResult, NotClean>>

Step2Rename ==
  /\ cpc = "rename"
  /\ cpc' = "profile"
  /\ cData' = IF cConfig.standardizeColumnNames
              THEN RenameRows(cData, Keys(cData[1]), Renamed(Keys(cData[1])))
              ELSE cData
  /\ cOwner' = IF cConfig.standardizeColumnNames /\ Renamed(Keys(cData[1])) # <<>>
               THEN NewOwners(cData) ELSE cOwner
  /\ cCaller' = cCaller
  /\ cActions' = cActions \o (IF cConfig.standardizeColumnNames
                              THEN RenameAction(Renamed(Keys(cData[1]))) ELSE NoAction)
  /\ UNCHANGED <<cProfiles, cDerived, cResult, NotClean>>

Step3Profile ==
  /\ cpc = "profile"
  /\ cpc' = "dedup"
  /\ cProfiles' = ColumnProfiles(tz, cData)
  /\ UNCHANGED <<cCaller, cOwner, cData, cActions, cDerived, cResult, NotClean>>

Step4Dedup ==
  /\ cpc = "dedup"
  /\ cpc' = "dates"
  /\ cData' = IF cConfig.removeDuplicates THEN DedupFrom(cData, {}) ELSE cData
  /\ cActions' = cActions \o (IF cConfig.removeDuplicates
                              THEN DedupAction(Len(cData) - Len(DedupFrom(cData, {})))
                              ELSE NoAction)
  /\ cOwner' = StepOwners(cOwner, cData, cData')
  /\ cCaller' = StepCaller(cCaller, cOwner, cData, cData')
  /\ UNCHANGED <<cProfiles, cDerived, cResult, NotClean>>

Step5Dates ==
  /\ cpc = "dates"
  /\ cpc' = "convert"
  /\ cData' = IF cConfig.parseDates
              THEN FixDateColumns(tz, today, cConfig.dateImputation, cData,
                                  OfType(cProfiles, {"date"}))
              ELSE cData
  /\ cActions' = cActions \o (IF cConfig.parseDates
                              THEN FixDatesAction(FixDateDetails(tz, cData, OfType(cProfiles, {"date"})))
                              ELSE NoAction)
  /\ cOwner' = StepOwners(cOwner, cData, cData')
  /\ cCaller' = StepCaller(cCaller, cOwner, cData, cData')
  /\ UNCHANGED <<cProfiles, cDerived, cResult, NotClean>>

Step6Convert ==
  /\ cpc = "convert"
  /\ cpc' = "normalize"
  /\ cData' = IF cConfig.autoConvertTypes THEN ConvertColumns(cData, cProfiles) ELSE cData
  /\ cActions' = cActions \o (IF cConfig.autoConvertTypes
                              THEN ConvertAction(ConvertDetails(cData, cProfiles)) ELSE NoAction)
  /\ cOwner' = StepOwners(cOwner, cData, cData')
  /\ cCaller' = StepCaller(cCaller, cOwner, cData, cData')
  /\ UNCHANGED <<cProfiles, cDerived, cResult, NotClean>>

Step7Normalize ==
  /\ cpc = "normalize"
  /\ cpc' = "outliers"
  /\ cData' = IF cConfig.normalizeCategorical
              THEN NormalizeColumns(cData, Normalizable(cProfiles)) ELSE cData
  /\ cActions' = cActions \o (IF cConfig.normalizeCategorical
                              THEN NormalizeAction(NormalizeDetails(cData, Normalizable(cProfiles)))
                              ELSE NoAction)
  /\ cOwner' = StepOwners(cOwner, cData, cData')
  /\ cCaller' = StepCaller(cCaller, cOwner, cData, cData')
  /\ UNCHANGED <<cProfiles, cDerived, cResult, NotClean>>

HandlesOutliers(config) == config.outlierDetection # "none" /\ config.outlierHandling # "none"
OutliersOf(config, profiles, data) ==
  IF HandlesOutliers(config)
  THEN OutlierColumns(config, profiles, [data |-> data, details |-> <<>>])
  ELSE [data |-> data, details |-> <<>>]
Step8Outliers ==
  /\ cpc = "outliers"
  /\ cpc' = "missing"
  /\ cData' = OutliersOf(cConfig, cProfiles, cData).data
  /\ cActions' = cActions \o OutlierAction(OutliersOf(cConfig, cProfiles, cData).details)
  /\ cOwner' = StepOwners(cOwner, cData, cData')
  /\ cCaller' = StepCaller(cCaller, cOwner, cData, cData')
  /\ UNCHANGED <<cProfiles, cDerived, cResult, NotClean>>

\* the rows after the loop over the profiles has filled them, before the filter
FilledOf(config, profiles, data) ==
  MissingColumns(config, profiles, [data |-> data, details |-> <<>>]).data
MissingOf(config, profiles, data) ==
  RemoveIncomplete(config, MissingColumns(config, profiles, [data |-> data, details |-> <<>>]))
Step9Missing ==
  /\ cpc = "missing"
  /\ cpc' = "derive"
  /\ cData' = MissingOf(cConfig, cProfiles, cData).data
  /\ cOwner' = StepOwners(cOwner, FilledOf(cConfig, cProfiles, cData), cData')
  /\ cCaller' = WrittenThrough(cCaller, cOwner, FilledOf(cConfig, cProfiles, cData))
  /\ cActions' = cActions \o MissingAction(MissingOf(cConfig, cProfiles, cData).details)
  /\ UNCHANGED <<cProfiles, cDerived, cResult, NotClean>>

Step10Derive ==
  /\ cpc = "derive"
  /\ cpc' = "ranges"
  /\ cData' = IF cConfig.createDateParts
              THEN DeriveColumns(tz, today, cData, OfType(cProfiles, {"date"})) ELSE cData
  /\ cDerived' = IF cConfig.createDateParts THEN DerivedColumns(OfType(cProfiles, {"date"}))
                 ELSE <<>>
  /\ cActions' = cActions \o (IF cConfig.createDateParts
                              THEN DerivedAction(DerivedColumns(OfType(cProfiles, {"date"})))
                              ELSE NoAction)
  /\ cOwner' = StepOwners(cOwner, cData, cData')
  /\ cCaller' = StepCaller(cCaller, cOwner, cData, cData')
  /\ UNCHANGED <<cProfiles, cResult, NotClean>>

RangesOf(config, profiles, data) ==
  IF config.validateRanges THEN RangeColumns(profiles, [data |-> data, details |-> <<>>])
  ELSE [data |-> data, details |-> <<>>]
Step11Ranges ==
  /\ cpc = "ranges"
  /\ cpc' = "sweep"
  /\ cData' = RangesOf(cConfig, cProfiles, cData).data
  /\ cActions' = cActions \o RangeAction(RangesOf(cConfig, cProfiles, cData).details)
  /\ cOwner' = StepOwners(cOwner, cData, cData')
  /\ cCaller' = StepCaller(cCaller, cOwner, cData, cData')
  /\ UNCHANGED <<cProfiles, cDerived, cResult, NotClean>>

Step12Sweep ==
  /\ cpc = "sweep"
  /\ cpc' = "return"
  /\ cData' = IF cConfig.enforceZeroBlank THEN SweepRows(cData, cProfiles, today) ELSE cData
  /\ cActions' = cActions \o (IF cConfig.enforceZeroBlank THEN SweepAction(BlanksFixed(cData))
                              ELSE NoAction)
  /\ cOwner' = StepOwners(cOwner, cData, cData')
  /\ cCaller' = StepCaller(cCaller, cOwner, cData, cData')
  /\ UNCHANGED <<cProfiles, cDerived, cResult, NotClean>>

Return ==
  /\ cpc = "return"
  /\ cpc' = "done"
  /\ cResult' = CleaningResult(cInput, cData, cActions, cDerived,
                               Summary(cInput, cData, cActions, cDerived))
  /\ UNCHANGED <<cCaller, cOwner, cData, cProfiles, cActions, cDerived, NotClean>>

\* the caller passes the data of the first result to a second call, with the
\* same config
Rerun ==
  /\ cpc = "done"
  /\ cPass = 1
  /\ cPass' = 2
  /\ cFirst' = cResult
  /\ cInput' = cResult.data
  /\ cCaller' = cResult.data
  /\ cOwner' = <<>>
  /\ cpc' = "start"
  /\ cData' = <<>> /\ cProfiles' = <<>> /\ cActions' = <<>> /\ cDerived' = <<>>
  /\ cResult' = EmptyResult
  /\ UNCHANGED <<tz, today, cConfig, vVars, tVars, aVars, sVars, dVars, pVars, gVars>>

IdleClean ==
  /\ today = 0 /\ cpc = "idle" /\ cConfig = <<>> /\ cInput = <<>> /\ cData = <<>>
  /\ cCaller = <<>> /\ cOwner = <<>>
  /\ cProfiles = <<>> /\ cActions = <<>> /\ cDerived = <<>> /\ cResult = EmptyResult
  /\ cPass = 1 /\ cFirst = EmptyResult

\* ---- the calls the model makes ----
\* DEFAULT_CLEANING_CONFIG (outlierThreshold, 1.5, in halves)
DEFAULT_CLEANING_CONFIG ==
  [numericImputation |-> "median", categoricalImputation |-> "unknown",
   dateImputation |-> "median", outlierDetection |-> "iqr", outlierThreshold2 |-> 3,
   outlierHandling |-> "cap", standardizeColumnNames |-> TRUE,
   normalizeCategorical |-> TRUE, trimWhitespace |-> TRUE, autoConvertTypes |-> TRUE,
   parseDates |-> TRUE, validateRanges |-> TRUE, removeDuplicates |-> TRUE,
   createDateParts |-> TRUE, enforceZeroBlank |-> TRUE,
   enableTimeSeriesInterpolation |-> TRUE]
\* { ...DEFAULT_CLEANING_CONFIG, ...config }
With(config, field, value) == [config EXCEPT ![field] = value]
ConfigMean == With(DEFAULT_CLEANING_CONFIG, "numericImputation", "mean")
ConfigRemove == With(DEFAULT_CLEANING_CONFIG, "numericImputation", "remove")
ConfigMode ==
  With(With(DEFAULT_CLEANING_CONFIG, "normalizeCategorical", FALSE),
       "categoricalImputation", "mode")
ConfigWide == With(DEFAULT_CLEANING_CONFIG, "outlierThreshold2", 6)
ConfigFlag == With(DEFAULT_CLEANING_CONFIG, "outlierHandling", "flag")
ConfigDrop == With(DEFAULT_CLEANING_CONFIG, "outlierHandling", "remove")
ConfigForward == With(DEFAULT_CLEANING_CONFIG, "dateImputation", "forward_fill")
ConfigBlanks == With(DEFAULT_CLEANING_CONFIG, "enforceZeroBlank", FALSE)
ConfigQuiet ==
  [DEFAULT_CLEANING_CONFIG EXCEPT
     !.outlierDetection = "none", !.standardizeColumnNames = FALSE,
     !.normalizeCategorical = FALSE, !.trimWhitespace = FALSE, !.autoConvertTypes = FALSE,
     !.parseDates = FALSE, !.validateRanges = FALSE, !.removeDuplicates = FALSE,
     !.createDateParts = FALSE]
CleanConfigs ==
  {DEFAULT_CLEANING_CONFIG, ConfigMean, ConfigRemove, ConfigMode, ConfigWide, ConfigFlag,
   ConfigDrop, ConfigForward, ConfigBlanks, ConfigQuiet}

n_gender == <<"g","e","n","d","e","r">>
n_Gender == <<"G","e","n","d","e","r">>
n_score == <<"s","c","o","r","e">>
n_joined == <<"j","o","i","n","e","d">>
s_M == <<"M">>
s_F == <<"F">>
s_f == <<"f">>
s_female == <<"f","e","m","a","l","e">>
s_xyz == <<"x","y","z">>
s_m_padded == <<" ","m"," ">>
s_x == <<"x">>
s_z == <<"z">>
Cell(key, val) == [key |-> key, val |-> val]
OneColumn(name, values) == [i \in DOMAIN values |-> <<Cell(name, values[i])>>]
\* the names of the rows of the numeric inputs, so that no two rows are equal
RowIds == << <<"k","a">>, <<"k","b">>, <<"k","c">>, <<"k","d">>, <<"k","e">>,
             <<"k","f">>, <<"k","g">> >>
\* rows {id, score}; a score of undefined is a row without the key
Scored(values) ==
  [i \in DOMAIN values |->
     IF values[i] = Undefined THEN <<Cell(n_id, Str(RowIds[i]))>>
     ELSE <<Cell(n_id, Str(RowIds[i])), Cell(n_score, values[i])>>]

MaxGenderRows == 2
GenderCells ==
  {Str(s_M), Str(s_F), Str(s_f), Str(s_female), Str(s_xyz), Str(<<>>), Null, Str(s_m_padded)}
GenderInputs ==
  { OneColumn(n_gender, vs) : vs \in SeqsUpTo(GenderCells, MaxGenderRows) \ {<<>>} }
  \cup { OneColumn(n_gender, <<Str(s_M), Str(s_female), Str(s_xyz), Str(<<>>)>>),
         OneColumn(n_Gender, <<Str(s_M), Str(s_female), Str(s_xyz), Str(<<>>)>>),
         OneColumn(n_Gender, <<Str(s_F), Null>>),
         OneColumn(n_gender, <<Num(20), Num(21)>>) }
ScoreBases == { <<Num(20), Num(20), Num(20), Num(21)>>,
                <<Num(13), Num(13), Num(13), Num(13), Num(31)>> }
ScoreInputs ==
  { Scored(base \o <<x, y>>) :
      base \in ScoreBases, x \in {Num(50), Num(31), Num(22)},
      y \in {Null, Str(<<>>), Undefined, Num(21)} }
RaggedInputs ==
  { << <<Cell(k_a, Str(s_x))>>, <<Cell(k_a, Str(s_abc)), Cell(k_b, Str(s_z))>> >>,
    << <<Cell(k_a, Str(s_x)), Cell(k_b, Str(s_z))>>, <<Cell(k_a, Str(s_abc))>> >> }
MaxDateRows == 2
DateCells == {Str(s_iso_jan15), Str(s_us_mar15), Str(s_abc), Str(<<>>)}
DateInputs ==
  { OneColumn(n_joined, vs) : vs \in SeqsUpTo(DateCells, MaxDateRows) \ {<<>>} }
CleanInputs == {<<>>} \cup GenderInputs \cup ScoreInputs \cup RaggedInputs \cup DateInputs

\* new Date() of the model: noon (UTC) of 2 November 2026
Now == DaysFromCivil(2026, 11, 2) * HalfHoursPerDay + 24

InitCleanInputs ==
  /\ tz \in {"utc", "east"}
  /\ today = Now
  /\ cpc = "start"
  /\ cConfig \in CleanConfigs
  /\ cInput \in CleanInputs
  /\ cCaller = cInput /\ cOwner = <<>>
  /\ cData = <<>> /\ cProfiles = <<>> /\ cActions = <<>> /\ cDerived = <<>>
  /\ cResult = EmptyResult /\ cPass = 1 /\ cFirst = EmptyResult

\* ---- calls with single options changed ----
ConfigNoParts == With(DEFAULT_CLEANING_CONFIG, "createDateParts", FALSE)
ConfigFlagWide == With(ConfigFlag, "outlierThreshold2", 6)
ConfigRenameOnly == With(ConfigQuiet, "standardizeColumnNames", TRUE)
OptionConfigs == {DEFAULT_CLEANING_CONFIG, ConfigNoParts, ConfigFlagWide, ConfigRenameOnly}

\* columns of boolean tokens
MaxFlagRows == 2
FlagCells == {Str(s_true), Str(s_false), Str(s_yes), Str(<<"n","o">>), Bool(TRUE), Bool(FALSE)}
FlagInputs == { OneColumn(n_flag, vs) : vs \in SeqsUpTo(FlagCells, MaxFlagRows) \ {<<>>} }

\* one row whose column names differ in case only, one whose names differ
NameInputs ==
  { << <<Cell(n_Name, Str(s_abc)), Cell(n_name, Str(s_xyz))>> >>,
    << <<Cell(n_Name, Str(s_abc)), Cell(k_b, Str(s_xyz))>> >> }

OptionInputs ==
  DateInputs \cup FlagInputs \cup NameInputs
  \cup { Scored(<<Num(20), Num(20), Num(20), Num(21), Num(23), Num(21)>>) }

InitOptionInputs ==
  /\ tz \in {"utc", "east"}
  /\ today = Now
  /\ cpc = "start"
  /\ cConfig \in OptionConfigs
  /\ cInput \in OptionInputs
  /\ cCaller = cInput /\ cOwner = <<>>
  /\ cData = <<>> /\ cProfiles = <<>> /\ cActions = <<>> /\ cDerived = <<>>
  /\ cResult = EmptyResult /\ cPass = 1 /\ cFirst = EmptyResult

(***************************************************************************)
(* Calls of interpolateNumeric                                             *)
(***************************************************************************)
\* one call of interpolateNumeric(values)
CallInterpolateNumeric ==
  /\ ppc = "start" /\ pFn = "interpolateNumeric"
  /\ pOut' = interpolateNumeric(pArg)
  /\ ppc' = "done"
  /\ UNCHANGED <<tz, pFn, pArg, vVars, tVars, aVars, sVars, dVars, gVars, cVars>>

\* (number | null)[]: nulls and numbers, in hundredths
MaxValues == 4
Known(centi) == [ok |-> TRUE, n |-> centi]
NumberOrNullValues == {NaN, Known(100), Known(300), Known(1000)}
InitInterpolateInputs ==
  /\ ppc = "start" /\ pFn = "interpolateNumeric"
  /\ pArg \in SeqsUpTo(NumberOrNullValues, MaxValues)
  /\ pOut = <<>>

(***************************************************************************)
(* Calls of analyzeCategorical                                             *)
(***************************************************************************)
\* one call of analyzeCategorical(values, values.length)
CallAnalyzeCategorical ==
  /\ ppc = "start" /\ pFn = "analyzeCategorical"
  /\ pOut' = analyzeCategorical(pArg, Len(pArg))
  /\ ppc' = "done"
  /\ UNCHANGED <<tz, pFn, pArg, vVars, tVars, aVars, sVars, dVars, gVars, cVars>>

\* the raw values of a column: spellings of one word of the dictionary and of
\* one word outside it
MaxRawValues == 3
s_male == <<"m","a","l","e">>
RawValues == {s_male, s_Male, <<"m">>, <<"a","b">>, <<"A","b">>, <<"a","-","b">>}
InitCategoricalInputs ==
  /\ ppc = "start" /\ pFn = "analyzeCategorical"
  /\ pArg \in SeqsUpTo(RawValues, MaxRawValues)
  /\ pOut = <<>>

(***************************************************************************)
(* Calls of inferSchemaFromData                                            *)
(***************************************************************************)
\* one call of inferSchemaFromData(data)
CallInferSchemaFromData ==
  /\ ppc = "start" /\ pFn = "inferSchemaFromData"
  /\ pOut' = inferSchemaFromData(tz, pArg)
  /\ ppc' = "done"
  /\ UNCHANGED <<tz, pFn, pArg, vVars, tVars, aVars, sVars, dVars, gVars, cVars>>

\* rows of one column: all short columns over a number, a date, a boolean
\* word, another word and the empty string; columns at the two thresholds;
\* a column of more than 100 rows whose first value is empty
MaxSample == 3
SampleCells == {Str(s_5), Str(s_iso_jan15), Str(s_yes), Str(s_abc), Str(<<>>)}
Repeat(v, n) == [i \in 1..n |-> v]
ThresholdColumns ==
  { Repeat(Str(s_5), 17) \o Repeat(Str(s_abc), 3),
    Repeat(Str(s_5), 18) \o Repeat(Str(s_abc), 2),
    Repeat(Str(s_iso_jan15), 7) \o Repeat(Str(s_abc), 3),
    Repeat(Str(s_iso_jan15), 8) \o Repeat(Str(s_abc), 2),
    <<Str(<<>>)>> \o Repeat(Str(s_yes), 99) \o <<Str(s_abc)>> }
InferInputs ==
  { OneColumn(k_a, vs) : vs \in SeqsUpTo(SampleCells, MaxSample) \cup ThresholdColumns }
InitInferInputs ==
  /\ ppc = "start" /\ pFn = "inferSchemaFromData"
  /\ pArg \in InferInputs
  /\ pOut = <<>>

(***************************************************************************)
(* cleanWithGroq                                                           *)
(***************************************************************************)
\* The promise of cleanWithGroq runs from one await to the next: each action
\* below is what runs between two awaits. fetch answers every request (with a
\* response or by rejecting), timers fire, and onProgress returns normally.
BATCH_SIZE == 50
MAX_RETRIES == 3
RETRY_DELAY_MS == 5000

\* batches[i - 1] and batches.length; a faulty variant that drops a last,
\* shorter batch
BatchOf(data, i) == SubSeq(data, (i - 1) * BATCH_SIZE + 1, Min(i * BATCH_SIZE, Len(data)))
TotalBatches_fullOnly(data) == Len(data) \div BATCH_SIZE
TotalBatches(data) == (Len(data) + BATCH_SIZE - 1) \div BATCH_SIZE

\* the entries of the trace: a request sent for a batch with the number of
\* rows in its body, what came back for it, a timer set by sleep(ms)
Request(batch, retry, rows) ==
  [kind |-> "request", batch |-> batch, retry |-> retry, rows |-> rows, ms |-> 0,
   outcome |-> "none"]
Response(batch, retry, outcome) ==
  [kind |-> "response", batch |-> batch, retry |-> retry, rows |-> 0, ms |-> 0,
   outcome |-> outcome]
Sleep(batch, ms) ==
  [kind |-> "sleep", batch |-> batch, retry |-> 0, rows |-> 0, ms |-> ms, outcome |-> "none"]
\* one call of onProgress
Event(phase, batch, totalBatches, message) ==
  [phase |-> phase, batch |-> batch, totalBatches |-> totalBatches, message |-> message]

\* what fetch can produce for a request: status 200 with content that is the
\* JSON array of the cleaned rows, or another JSON array (here the empty one),
\* or no JSON array; status 429; another status that is not ok; a rejection
\* (of fetch, or of reading the body of the response)
GroqOutcomes == {"rows", "other_array", "not_array", "rate_limit", "http_error", "network"}
ArrayOutcomes == {"rows", "other_array"}
\* the array parsed from the content of a response
CleanedRow(row) == [cleaned |-> row]
ParsedArray(outcome, batch) ==
  IF outcome = "rows" THEN [j \in DOMAIN batch |-> CleanedRow(batch[j])] ELSE <<>>
\* the message of the error a failed attempt throws
ErrorOf(outcome) ==
  IF outcome = "not_array" THEN "Failed to parse Groq response as JSON"
  ELSE IF outcome = "http_error" THEN "Groq API error"
  ELSE IF outcome = "network" THEN "Failed to fetch"
  ELSE "RATE_LIMIT"

NoGroqResult ==
  [data |-> <<>>, errorLog |-> <<>>, batchesProcessed |-> 0, totalRows |-> 0, failedRows |-> 0]

\* if (retryCount < MAX_RETRIES); a faulty variant that allows one retry more
CanRetry_oneMore(retryCount) == retryCount <= MAX_RETRIES
CanRetry(retryCount) == retryCount < MAX_RETRIES

\* cleanWithGroq once callGroqWithRetry has settled for batch i: the result is
\* pushed or the error logged, then the loop sleeps before the next batch or,
\* after the last one, reports 'done' and returns
Settle(i, ok, result, error, trace, events) ==
  /\ gCleaned' = IF ok THEN gCleaned \o result ELSE gCleaned
  /\ gErrorLog' = IF ok THEN gErrorLog
                  ELSE Append(gErrorLog, [batchIndex |-> i - 1, error |-> error,
                                          rowCount |-> Len(BatchOf(gData, i))])
  /\ gFailed' = IF ok THEN gFailed ELSE gFailed + Len(BatchOf(gData, i))
  /\ gIdx' = i
  /\ gRetry' = gRetry
  /\ IF i < TotalBatches(gData)
     THEN /\ gTrace' = Append(trace, Sleep(i, 1000))
          /\ gEvents' = events
          /\ gpc' = "between"
          /\ gResult' = gResult
     ELSE /\ gTrace' = trace
          /\ gEvents' = Append(events, Event("done", TotalBatches(gData), TotalBatches(gData),
                                             "AI cleaning complete!"))
          /\ gpc' = "resolved"
          /\ gResult' = [data |-> gCleaned', errorLog |-> gErrorLog',
                         batchesProcessed |-> TotalBatches(gData), totalRows |-> Len(gData),
                         failedRows |-> gFailed']

\* callGroqWithRetry(batches[i - 1], i - 1, ..., retry) up to its await of
\* fetch; getApiKey throws when the key is not set
CallGroq(i, retry) ==
  IF gKey
  THEN /\ gEvents' = Append(gEvents,
                            IF retry > 0
                            THEN Event("retrying", i, TotalBatches(gData), "Retrying batch")
                            ELSE Event("sending", i, TotalBatches(gData), "Processing batch"))
       /\ gTrace' = Append(gTrace, Request(i, retry, Len(BatchOf(gData, i))))
       /\ gIdx' = i
       /\ gRetry' = retry
       /\ gpc' = "fetching"
       /\ UNCHANGED <<gCleaned, gErrorLog, gFailed, gResult>>
  ELSE Settle(i, FALSE, <<>>, "VITE_GROQ_API_KEY is not set", gTrace, gEvents)

NotGroq == <<tz, gData, gKey, vVars, tVars, aVars, sVars, dVars, pVars, cVars>>

\* cleanWithGroq(data, onProgress) up to its first await
CleanWithGroq ==
  /\ gpc = "start"
  /\ IF Len(gData) = 0
     THEN /\ gpc' = "resolved"
          /\ gResult' = NoGroqResult
          /\ UNCHANGED <<gIdx, gRetry, gTrace, gCleaned, gErrorLog, gFailed, gEvents>>
     ELSE CallGroq(1, 0)
  /\ UNCHANGED NotGroq

\* fetch settles: callGroqWithRetry from its await of fetch to its next await
\* or to its end
FetchSettles ==
  /\ gpc = "fetching"
  /\ \E outcome \in GroqOutcomes :
       IF outcome = "rate_limit" /\ CanRetry(gRetry)
       THEN /\ gEvents' = Append(gEvents, Event("retrying", gIdx, TotalBatches(gData),
                                               "Rate limited"))
            /\ gTrace' = gTrace \o <<Response(gIdx, gRetry, outcome),
                                      Sleep(gIdx, RETRY_DELAY_MS * (gRetry + 1))>>
            /\ gpc' = "backoff"
            /\ UNCHANGED <<gIdx, gRetry, gCleaned, gErrorLog, gFailed, gResult>>
       ELSE Settle(gIdx, outcome \in ArrayOutcomes, ParsedArray(outcome, BatchOf(gData, gIdx)),
                   ErrorOf(outcome), Append(gTrace, Response(gIdx, gRetry, outcome)), gEvents)
  /\ UNCHANGED NotGroq

\* the timer of the backoff fires: callGroqWithRetry(..., retryCount + 1)
RetryTimerFires ==
  /\ gpc = "backoff"
  /\ CallGroq(gIdx, gRetry + 1)
  /\ UNCHANGED NotGroq

\* the timer between two batches fires: the loop goes on with the next batch
BatchTimerFires ==
  /\ gpc = "between"
  /\ CallGroq(gIdx + 1, 0)
  /\ UNCHANGED NotGroq

\* ---- the calls of cleanWithGroq ----
MaxBatches == 3
GroqSizes == {0, 1} \cup UNION {{k * BATCH_SIZE, k * BATCH_SIZE + 1} : k \in 1..(MaxBatches - 1)}
InitGroqInputs ==
  /\ gpc = "start"
  /\ gData \in {[i \in 1..n |-> i] : n \in GroqSizes}
  /\ gKey \in BOOLEAN
  /\ gIdx = 1 /\ gRetry = 0 /\ gTrace = <<>> /\ gCleaned = <<>> /\ gErrorLog = <<>>
  /\ gFailed = 0 /\ gEvents = <<>> /\ gResult = NoGroqResult

IdleGroq ==
  /\ gpc = "idle" /\ gData = <<>> /\ gKey = TRUE /\ gIdx = 1 /\ gRetry = 0
  /\ gTrace = <<>> /\ gCleaned = <<>> /\ gErrorLog = <<>>
  /\ gFailed = 0 /\ gEvents = <<>> /\ gResult = NoGroqResult

(***************************************************************************)
(* Specifications: one per entry point, each on inputs drawn from the sets *)
(* above                                                                   *)
(***************************************************************************)
\* no call of stringSimilarity or of parseMultiFormatDate on its own
IdleCalls == IdleSimilarity /\ IdleDates /\ IdlePure /\ IdleGroq

InitValidate ==
  InitValidateInputs /\ IdleTransform /\ IdleAuto /\ IdleCalls /\ IdleClean /\ tz = "utc"
NextValidate == ValidateColumn \/ ValidateFinish
SpecValidate == InitValidate /\ [][NextValidate]_vars

InitTransform == InitTransformInputs /\ IdleValidate /\ IdleAuto /\ IdleCalls /\ IdleClean

InitAuto == InitAutoInputs /\ IdleValidate /\ IdleCalls /\ IdleClean

InitSimilarity ==
  /\ InitSimilarityInputs /\ IdleDates /\ IdlePure /\ IdleGroq /\ tz = "utc"
  /\ IdleValidate /\ IdleTransform /\ IdleAuto /\ IdleClean
NextSimilarity == Similarity
SpecSimilarity == InitSimilarity /\ [][NextSimilarity]_vars

InitDates ==
  /\ InitDateInputs /\ IdleSimilarity /\ IdlePure /\ IdleGroq
  /\ IdleValidate /\ IdleTransform /\ IdleAuto /\ IdleClean
NextDates == ParseDate
SpecDates == InitDates /\ [][NextDates]_vars
NextAuto == AutoTransform \/ TransformStep \/ TransformFinish
SpecAuto == InitAuto /\ [][NextAuto]_vars
NextTransform == TransformStep \/ TransformFinish
SpecTransform == InitTransform /\ [][NextTransform]_vars

InitClean == InitCleanInputs /\ IdleValidate /\ IdleTransform /\ IdleAuto /\ IdleCalls
NextClean ==
  \/ Begin \/ Step1Trim \/ Step2Rename \/ Step3Profile \/ Step4Dedup \/ Step5Dates
  \/ Step6Convert \/ Step7Normalize \/ Step8Outliers \/ Step9Missing \/ Step10Derive
  \/ Step11Ranges \/ Step12Sweep \/ Return \/ Rerun
SpecClean == InitClean /\ [][NextClean]_vars

InitInterpolate ==
  /\ InitInterpolateInputs /\ IdleSimilarity /\ IdleDates /\ IdleGroq /\ tz = "utc"
  /\ IdleValidate /\ IdleTransform /\ IdleAuto /\ IdleClean
NextInterpolate == CallInterpolateNumeric
SpecInterpolate == InitInterpolate /\ [][NextInterpolate]_vars

InitCategorical ==
  /\ InitCategoricalInputs /\ IdleSimilarity /\ IdleDates /\ IdleGroq /\ tz = "utc"
  /\ IdleValidate /\ IdleTransform /\ IdleAuto /\ IdleClean
NextCategorical == CallAnalyzeCategorical
SpecCategorical == InitCategorical /\ [][NextCategorical]_vars

InitInfer ==
  /\ InitInferInputs /\ IdleSimilarity /\ IdleDates /\ IdleGroq /\ tz \in {"utc", "east"}
  /\ IdleValidate /\ IdleTransform /\ IdleAuto /\ IdleClean
NextInfer == CallInferSchemaFromData
SpecInfer == InitInfer /\ [][NextInfer]_vars

InitGroq ==
  /\ InitGroqInputs /\ IdleSimilarity /\ IdleDates /\ IdlePure /\ tz = "utc"
  /\ IdleValidate /\ IdleTransform /\ IdleAuto /\ IdleClean
NextGroq == CleanWithGroq \/ FetchSettles \/ RetryTimerFires \/ BatchTimerFires
SpecGroq == InitGroq /\ [][NextGroq]_vars
\* every request is answered and every timer fires
SpecGroqFair == SpecGroq /\ WF_vars(NextGroq)

InitCleanOptions == InitOptionInputs /\ IdleValidate /\ IdleTransform /\ IdleAuto /\ IdleCalls
SpecCleanOptions == InitCleanOptions /\ [][NextClean]_vars

(***************************************************************************)
(* Claims about validateSchema                                             *)
(***************************************************************************)
\* the normalized name of the claim: lowercase, alphanumerics only
LowerAlnum(s) == FilterChars(toLowerCase(s), Range(LowerChars) \cup Range(DigitChars))
NameEquals(src, tgt) == LowerAlnum(src) = LowerAlnum(tgt.name)
AliasEquals(src, tgt) == \E i \in DOMAIN tgt.aliases : LowerAlnum(tgt.aliases[i]) = LowerAlnum(src)

\* the first target, in schema order, whose name or one of whose aliases
\* equals the source after normalisation (0 when there is none)
FirstHit(src, cols) ==
  LET hit == [j \in DOMAIN cols |-> NameEquals(src, cols[j]) \/ AliasEquals(src, cols[j])]
  IN IF \E j \in DOMAIN cols : hit[j]
     THEN CHOOSE j \in DOMAIN cols : hit[j] /\ \A k \in 1..(j - 1) : ~hit[k]
     ELSE 0

\* C10 as stated: a source column whose normalized name equals the normalized
\* name of some target column is mapped to such a target with confidence 100
\* and status 'exact', whatever the order of the targets and the aliases of
\* other targets; confidence 95 only when the source equals an alias and no
\* target name.
C10_ExactPriorityAnyOrder ==
  vpc = "done" => \A i \in DOMAIN vResult.mappings :
    LET m == vResult.mappings[i]
        src == m.sourceColumn
        someName == \E j \in DOMAIN vSchema : NameEquals(src, vSchema[j])
    IN /\ someName =>
            /\ m.confidence = 100
            /\ m.status = "exact"
            /\ LowerAlnum(m.suggestedTarget) = LowerAlnum(src)
       /\ m.confidence = 95 =>
            /\ \E j \in DOMAIN vSchema : AliasEquals(src, vSchema[j])
            /\ ~someName

\* C10 amended: a source column whose normalized name equals the name of some
\* target or an alias of some target is mapped, with status 'exact', to the
\* first target in schema order that it equals by name or by alias: with
\* confidence 100 when it equals that target's name and 95 when it equals only
\* an alias of it. So a name match gets confidence 100 exactly when no earlier
\* target declares the source as an alias, and an 'exact' mapping has confidence
\* 95 only when the source equals an alias of the suggested target and not the
\* name of that target or of an earlier one.
C10_ExactPriorityInSchemaOrder ==
  vpc = "done" => \A i \in DOMAIN vResult.mappings :
    LET m == vResult.mappings[i]
        src == m.sourceColumn
        f == FirstHit(src, vSchema)
    IN /\ f # 0 =>
            /\ m.status = "exact"
            /\ m.suggestedTarget = vSchema[f].name
            /\ m.confidence = IF NameEquals(src, vSchema[f]) THEN 100 ELSE 95
       /\ (m.status = "exact" /\ m.confidence = 95) =>
            /\ f # 0
            /\ AliasEquals(src, vSchema[f])
            /\ ~NameEquals(src, vSchema[f])
       /\ (m.status = "exact" /\ m.confidence = 100) =>
            /\ f # 0
            /\ NameEquals(src, vSchema[f])

\* a run in which a source that differs from the target's spelling is matched
\* by name to the second target although the first one declares aliases
C10_Witness ==
  /\ vpc = "done"
  /\ Len(vSchema) = 2
  /\ \E i \in DOMAIN vResult.mappings :
       LET m == vResult.mappings[i] IN
         /\ m.confidence = 100
         /\ m.status = "exact"
         /\ m.suggestedTarget = vSchema[2].name
         /\ m.sourceColumn # vSchema[2].name
         /\ vSchema[1].aliases # <<>>
         /\ ~NameEquals(m.sourceColumn, vSchema[1])

\* max(similarity to the name, similarity to any alias) of one target
FinalSim(src, tgt) ==
  Max(stringSimilarity(src, tgt.name),
      MaxOf({stringSimilarity(src, tgt.aliases[i]) : i \in DOMAIN tgt.aliases}))

\* the maximum of FinalSim over all targets (0 for a schema without columns)
BestSim(src, cols) == MaxOf({FinalSim(src, cols[j]) : j \in DOMAIN cols})

\* the first target in schema order that attains the maximum
FirstBest(src, cols) ==
  LET sim == [j \in DOMAIN cols |-> FinalSim(src, cols[j])]
      best == MaxOf(Range(sim))
  IN CHOOSE j \in DOMAIN cols : sim[j] = best /\ \A k \in 1..(j - 1) : sim[k] # best

\* C11: a source column with no exact name or alias match is mapped to the
\* first target in schema order that attains the maximum over all targets of
\* max(similarity to the name, similarity to any alias) when that maximum is
\* at least 50, with status 'fuzzy' and that maximum as confidence; when the
\* maximum is below 50 the mapping is 'unmatched' with suggestedTarget null
\* and confidence 0, and the column is listed in unmappedSource.
C11_FuzzySelection ==
  vpc = "done" =>
    /\ Len(vResult.mappings) = Len(vSource)
    /\ \A i \in DOMAIN vResult.mappings :
         LET m == vResult.mappings[i]
             src == m.sourceColumn
             best == BestSim(src, vSchema)
         IN /\ src = vSource[i]
            /\ FirstHit(src, vSchema) = 0 =>
                 IF best >= 50
                 THEN /\ m.status = "fuzzy"
                      /\ m.confidence = best
                      /\ m.suggestedTarget = vSchema[FirstBest(src, vSchema)].name
                 ELSE /\ m.status = "unmatched"
                      /\ m.suggestedTarget = NullName
                      /\ m.confidence = 0
                      /\ \E k \in DOMAIN vResult.unmappedSource :
                           vResult.unmappedSource[k] = src

\* a finished run with a fuzzy mapping whose maximum is attained by two
\* targets of different names, and with an unmatched column
C11_Witness ==
  /\ vpc = "done"
  /\ Len(vSchema) = 2
  /\ vSchema[1].name # vSchema[2].name
  /\ \E i \in DOMAIN vResult.mappings :
       LET m == vResult.mappings[i] IN
         /\ m.status = "fuzzy"
         /\ FinalSim(m.sourceColumn, vSchema[1]) = FinalSim(m.sourceColumn, vSchema[2])
         /\ m.suggestedTarget = vSchema[1].name
  /\ \E i \in DOMAIN vResult.mappings :
       /\ vResult.mappings[i].status = "unmatched"
       /\ vResult.unmappedSource # <<>>

\* the target column is the suggestedTarget of at least one mapping
Suggested(tgt, mappings) == \E i \in DOMAIN mappings : mappings[i].suggestedTarget = tgt.name

RECURSIVE EditDistance(_, _)
EditDistance(a, b) ==
  IF a = <<>> THEN Len(b)
  ELSE IF b = <<>> THEN Len(a)
  ELSE IF Head(a) = Head(b) THEN EditDistance(Tail(a), Tail(b))
  ELSE 1 + Min(Min(EditDistance(Tail(a), b), EditDistance(a, Tail(b))),
               EditDistance(Tail(a), Tail(b)))

\* round((1 - d/maxLen) * 100)
SimilarityOf(d, maxLen) == RoundDiv(100 * (maxLen - d), maxLen)

\* C15: stringSimilarity(a, b) is an integer in [0,100], symmetric in its
\* arguments, equal to 100 when the normalized forms (lowercase,
\* alphanumerics only) are equal (empty against empty included) and otherwise
\* equal to round((1 - d/maxLen) * 100), where d = levenshteinDistance of the
\* normalized forms is the classic unit-cost edit distance (0 for identical
\* strings, 3 for kitten/sitting) and maxLen the longer normalized length.
C15_SimilarityContract ==
  spc = "done" =>
    /\ sOut.sim \in 0..100
    /\ sOut.sim = sOut.back
    /\ sOut.sim =
         IF LowerAlnum(sA) = LowerAlnum(sB) THEN 100
         ELSE SimilarityOf(EditDistance(LowerAlnum(sA), LowerAlnum(sB)),
                           Max(Len(LowerAlnum(sA)), Len(LowerAlnum(sB))))
    /\ sOut.dist = EditDistance(sA, sB)
    /\ sOut.self = 0
    /\ (sA = s_kitten /\ sB = s_sitting) => sOut.dist = 3

\* the call on kitten and sitting has returned: distance 3, similarity
\* round((1 - 3/7) * 100) = 57
C15_Witness ==
  /\ spc = "done" /\ sA = s_kitten /\ sB = s_sitting
  /\ sOut.dist = 3 /\ sOut.sim = 57

\* C16: whenever parseMultiFormatDate returns a non-null date for a string,
\* that date's year is strictly between 1900 and 2100, whichever format
\* branch accepted it; every other input yields {date: null, format:
\* 'unknown'}.
C16_YearGuard ==
  dpc = "done" =>
    IF dOut.ok THEN YearInRange(getFullYear(tz, dOut.t))
    ELSE dOut.format = "unknown"

\* the input is a/b/YYYY: one or two digits, one or two digits, four digits
IsSlashDate(str) == ThreeGroups(str, "/", {1, 2}, {1, 2}, {4})
\* the date is calendar day (y, m, d) in the runtime's time zone
IsDay(zone, t, y, m, d) == LocalCivil(zone, t) = [y |-> y, m |-> m, d |-> d]

\* C17: for a string a/b/YYYY with a > 12 and b <= 12 (for example
\* 25/12/2024), parseMultiFormatDate returns the date with day a and month b
\* and the format tag 'DD/MM/YYYY'; for a <= 12 it returns month a and day b
\* (a day that the month has) with the tag 'MM/DD/YYYY'.
C17_AmbiguousSlashDates ==
  (dpc = "done" /\ IsSlashDate(dIn)) =>
    LET a == GroupVal(dIn, "/", 1)
        b == GroupVal(dIn, "/", 2)
        y == GroupVal(dIn, "/", 3)
    IN /\ (a > 12 /\ a <= DaysInMonth(y, Max(1, Min(b, 12))) /\ b >= 1 /\ b <= 12) =>
            /\ dOut.ok
            /\ dOut.format = "DD/MM/YYYY"
            /\ IsDay(tz, dOut.t, y, b, a)
       /\ (a >= 1 /\ a <= 12 /\ b >= 1 /\ b <= DaysInMonth(y, a)) =>
            /\ dOut.ok
            /\ dOut.format = "MM/DD/YYYY"
            /\ IsDay(tz, dOut.t, y, a, b)

(***************************************************************************)
(* Claims about transformData                                              *)
(***************************************************************************)
\* the positions of the input whose row hashes like an earlier row
HashRepeats(data) ==
  {i \in DOMAIN data : \E j \in 1..(i - 1) : hashRow(data[j]) = hashRow(data[i])}
\* the positions of the input whose row is identical to an earlier row
IdenticalRepeats(data) == {i \in DOMAIN data : \E j \in 1..(i - 1) : data[j] = data[i]}

SameButSkipped(twice, once, n) ==
  /\ twice.data = once.data
  /\ twice.errorRows = once.errorRows
  /\ twice.qualitySummary.duplicatesSkipped = once.qualitySummary.duplicatesSkipped + n

\* C5: transformData(R followed by R) returns the data and the errorRows of
\* transformData(R) and skips |R| more duplicates; within one call every row
\* identical to an earlier row is counted in duplicatesSkipped, once, and only
\* the rows that do not repeat an earlier hash are output.
C5_IdempotentTransform ==
  tpc = "done" =>
    /\ SameButSkipped(transformData(tz, tData \o tData, tSchema, tMap), tResult, Len(tData))
    /\ IdenticalRepeats(tData) \subseteq HashRepeats(tData)
    /\ tResult.qualitySummary.duplicatesSkipped = Cardinality(HashRepeats(tData))
    /\ Len(tResult.data) + Len(tResult.errorRows) = Len(tData) - Cardinality(HashRepeats(tData))

\* a finished call on two identical rows, one of them output and one skipped
C5_Witness ==
  /\ tpc = "done"
  /\ Len(tData) = 2 /\ tData[1] = tData[2]
  /\ tResult.qualitySummary.duplicatesSkipped = 1
  /\ Len(tResult.data) + Len(tResult.errorRows) = 1

\* the cells of a row that fail the type of their schema column: the mapping
\* entries whose target is a schema column and whose value is present and
\* refused by enforceType
FailingEntries(zone, row, cols, entries) ==
  {e \in DOMAIN entries :
     /\ FindColumn(cols, entries[e].tgt) # 0
     /\ ~IsMissing(Get(row, entries[e].src))
     /\ ~enforceType(zone, Get(row, entries[e].src),
                     cols[FindColumn(cols, entries[e].tgt)].type).valid}

\* the input positions that are output, in order
Kept(data) == SelectSeq([i \in DOMAIN data |-> i], LAMBDA i : i \notin HashRepeats(data))
ErrorPositions(zone, data, cols, entries) ==
  SelectSeq(Kept(data), LAMBDA i : FailingEntries(zone, data[i], cols, entries) # {})
DataPositions(zone, data, cols, entries) ==
  SelectSeq(Kept(data), LAMBDA i : FailingEntries(zone, data[i], cols, entries) = {})

\* C6: a non-duplicate row is in errorRows exactly when one of its mapped,
\* present cells fails the type of its schema column; the error row holds the
\* original value of every failing cell and an _error_details field; every
\* other row is in data with each typed cell coerced.
C6_TypeEnforcementRouting ==
  tpc = "done" =>
    LET errs == ErrorPositions(tz, tData, tSchema, tMap)
        oks == DataPositions(tz, tData, tSchema, tMap)
    IN /\ Len(tResult.errorRows) = Len(errs)
       /\ Len(tResult.data) = Len(oks)
       /\ \A k \in DOMAIN errs :
            /\ HasKey(tResult.errorRows[k], k_error_details)
            /\ \A e \in FailingEntries(tz, tData[errs[k]], tSchema, tMap) :
                 Get(tResult.errorRows[k], tMap[e].tgt) = Get(tData[errs[k]], tMap[e].src)
       /\ \A k \in DOMAIN oks :
            \A e \in DOMAIN tMap :
              (FindColumn(tSchema, tMap[e].tgt) # 0 /\ ~IsMissing(Get(tData[oks[k]], tMap[e].src)))
                => \E e2 \in DOMAIN tMap :
                     /\ tMap[e2].tgt = tMap[e].tgt
                     /\ Get(tResult.data[k], tMap[e].tgt) =
                          enforceType(tz, Get(tData[oks[k]], tMap[e2].src),
                                      tSchema[FindColumn(tSchema, tMap[e].tgt)].type).value

\* C7: data.length + errorRows.length + duplicatesSkipped is the number of
\* input rows, rowsProcessed = rowsSucceeded + rowsFailed, rowsSucceeded =
\* data.length, rowsFailed = errorRows.length, and the failureReasons
\* histogram sums to the length of errorLog.
C7_NoSilentRowLoss ==
  tpc = "done" =>
    LET q == tResult.qualitySummary
        reasons == DOMAIN q.failureReasons
    IN /\ Len(tResult.data) + Len(tResult.errorRows) + q.duplicatesSkipped = Len(tData)
       /\ q.rowsProcessed = q.rowsSucceeded + q.rowsFailed
       /\ q.rowsSucceeded = Len(tResult.data)
       /\ q.rowsFailed = Len(tResult.errorRows)
       /\ \A r \in reasons :
            q.failureReasons[r] =
              Cardinality({k \in DOMAIN q.errorLog : q.errorLog[k].reason = r})
       /\ \A k \in DOMAIN q.errorLog : q.errorLog[k].reason \in reasons

\* a finished call that put both of its rows out, at least one of them in
\* errorRows, and counted one reason twice
C7_Witness ==
  /\ tpc = "done"
  /\ Len(tResult.data) + Len(tResult.errorRows) = 2
  /\ Len(tResult.errorRows) >= 1
  /\ \E r \in DOMAIN tResult.qualitySummary.failureReasons :
       tResult.qualitySummary.failureReasons[r] = 2

(***************************************************************************)
(* Claims about autoTransform                                              *)
(***************************************************************************)
AutoReturned == apc = "called" /\ tpc = "done"

\* the rows of the result, data and errorRows, without _error_details
OutputRows(result) ==
  LET all == result.data \o result.errorRows
  IN [i \in DOMAIN all |-> SelectSeq(all[i], LAMBDA cell : cell.key # k_error_details)]

\* a column's own value: the cell as given, or as the column's inferred type
\* has it written (a number parsed, a string trimmed, a date as a calendar day)
OwnValues(zone, v, type) == {v, enforceType(zone, v, type).value}

\* C13: when autoTransform is called on non-empty rows without a target
\* schema, every source column is mapped to the inferred schema column of its
\* own name with status 'exact' and confidence 100, so overallConfidence and
\* mappingConfidenceScore are 100, and every output row (data and errorRows,
\* ignoring _error_details) has exactly the column names of the first input
\* row, each holding that column's own value.
C13_InferredSchemaPerfectMatch ==
  (AutoReturned /\ ~aGiven.given /\ tData # <<>>) =>
    /\ Len(aValidation.mappings) = Len(tData[1])
    /\ \A i \in DOMAIN aValidation.mappings :
         /\ aValidation.mappings[i].sourceColumn = tData[1][i].key
         /\ aValidation.mappings[i].suggestedTarget = tData[1][i].key
         /\ aValidation.mappings[i].status = "exact"
         /\ aValidation.mappings[i].confidence = 100
    /\ aValidation.overallConfidence = 100
    /\ tResult.qualitySummary.mappingConfidenceScore = 100
    /\ \A r \in DOMAIN OutputRows(tResult) :
         /\ Range(Keys(OutputRows(tResult)[r])) = Range(Keys(tData[1]))
         /\ \E i \in DOMAIN tData :
              \A c \in DOMAIN tSchema :
                Get(OutputRows(tResult)[r], tSchema[c].name)
                  \in OwnValues(tz, Get(tData[i], tSchema[c].name), tSchema[c].type)

\* the number of source columns mapped to a column of the schema
MappedToSchema(entries, cols) ==
  Cardinality({e \in DOMAIN entries : FindColumn(cols, entries[e].tgt) # 0})

\* C14: mappingConfidenceScore in the quality summary of transformData (also
\* when reached through autoTransform with a supplied schema) equals
\* round(100 * number of source columns mapped to a schema column / number of
\* schema columns) and always lies in 0..100.
C14_MappingConfidenceScore ==
  AutoReturned =>
    /\ tResult.qualitySummary.mappingConfidenceScore \in 0..100
    /\ Len(tSchema) > 0 =>
         tResult.qualitySummary.mappingConfidenceScore
           = RoundDiv(100 * MappedToSchema(tMap, tSchema), Len(tSchema))

\* the schema columns that are the target of some confirmed mapping
MappedColumns(entries, cols) ==
  {cols[j].name : j \in {c \in DOMAIN cols : \E e \in DOMAIN entries : entries[e].tgt = cols[c].name}}

\* C26: autoTransform with a supplied target schema confirms no two source
\* columns for one target column (the confirmed mapping is injective, so that
\* no target cell is written twice in a row), and for each mapped schema column
\* valid + invalid + missing in columnStats equals rowsProcessed.
C26_InjectiveConfirmedMappings ==
  (AutoReturned /\ aGiven.given /\ tData # <<>>) =>
    /\ \A e1, e2 \in DOMAIN tMap : tMap[e1].tgt = tMap[e2].tgt => e1 = e2
    /\ \A name \in MappedColumns(tMap, tSchema) :
         LET stats == tResult.qualitySummary.columnStats[name]
         IN stats.valid + stats.invalid + stats.missing
              = tResult.qualitySummary.rowsProcessed

\* ---- inferSchemaFromData on its own ----
Inferred == ppc = "done" /\ pFn = "inferSchemaFromData"
\* the first 100 non-empty values of a column
First100NonEmpty(data, key) ==
  LET present == SelectSeq([i \in DOMAIN data |-> Get(data[i], key)], LAMBDA v : ~IsMissing(v))
  IN SubSeq(present, 1, Min(Len(present), 100))
NumericParseable(v) == StrToNumber(RemoveCommas(ToStr(v))).ok
DateParseable(zone, v) == parseMultiFormatDate(zone, v).ok
BooleanToken(v) == trim(toLowerCase(ToStr(v))) \in InferBoolVals
Share(sample, ok(_)) == Cardinality({i \in DOMAIN sample : ok(sample[i])})
\* the type the thresholds give a sample
TypeBySample(zone, sample) ==
  LET dateOk(v) == DateParseable(zone, v)
  IN IF sample = <<>> THEN "string"
     ELSE IF 100 * Share(sample, NumericParseable) >= 85 * Len(sample) THEN "number"
     ELSE IF 100 * Share(sample, dateOk) >= 70 * Len(sample) THEN "date"
     ELSE IF Share(sample, BooleanToken) = Len(sample) /\ Len(sample) >= 2 THEN "boolean"
     ELSE "string"

\* C28: inferSchemaFromData gives a column the type number exactly when at
\* least 85% of its sample are numeric-parseable, otherwise date exactly when
\* at least 70% are date-parseable, otherwise boolean when the sample has at
\* least 2 values that are all boolean tokens, otherwise string; the sample is
\* the first 100 non-empty values of the column, and a column without a
\* non-empty value is a string column.
C28_InferredTypes ==
  (Inferred /\ pArg # <<>>) =>
    /\ Len(pOut) = Len(pArg[1])
    /\ \A c \in DOMAIN pOut :
         /\ pOut[c].name = pArg[1][c].key
         /\ pOut[c].type = TypeBySample(tz, First100NonEmpty(pArg, pOut[c].name))

(***************************************************************************)
(* Claims about cleanDataAdvanced                                          *)
(***************************************************************************)
\* a call on the rows the model chose (not the call on the first result) has returned
Returned == cpc = "done" /\ cPass = 1 /\ cInput # <<>>
\* no row was dropped, so output row i is input row i
RowsAligned == Len(cResult.data) = Len(cInput)
\* the name an input column has in the output
OutputName(config, name) ==
  IF config.standardizeColumnNames /\ name \in Range(Keys(cInput[1]))
  THEN FilterChars(toLowerCase(name), AlnumLower \cup {"_"}) ELSE name
\* null, undefined, or a string of nothing but blanks
Blank(v) == v.k \in {"null", "undef"} \/ (v.k = "str" /\ \A c \in Range(v.s) : c = " ")
AllKeys(data) == UNION { Range(Keys(data[i])) : i \in DOMAIN data }
NamesGender(name) ==
  Includes(toLowerCase(name), n_gender) \/ Includes(toLowerCase(name), <<"s","e","x">>)

\* C1: with enforceZeroBlank, every row of the returned data holds a value that is
\* not null, undefined or blank for every column any returned row has
C1_ZeroBlank ==
  (cpc = "done" /\ cInput # <<>> /\ cConfig.enforceZeroBlank)
    => \A i \in DOMAIN cResult.data : \A k \in AllKeys(cResult.data) :
         ~Blank(Get(cResult.data[i], k))

\* the G of the gender rule, on a trimmed cell
G(v) ==
  IF v.k # "str" THEN s_Unknown
  ELSE IF trim(v.s) \in {<<"m">>, <<"m","a","l","e">>, <<"M">>, <<"M","A","L","E">>,
                         <<"M","a","l","e">>} THEN s_Male
  ELSE IF trim(v.s) \in {<<"f">>, <<"f","e","m","a","l","e">>, <<"F">>,
                         <<"F","E","M","A","L","E">>, <<"F","e","m","a","l","e">>} THEN s_Female
  ELSE s_Unknown
GenderKeys == { k \in Range(Keys(cInput[1])) : NamesGender(k) }

\* C2: under the default config every returned cell of a gender column is
\* G(input cell), whatever type the profiler gave the column, so it is one of
\* 'Male', 'Female', 'Unknown'
C2_GenderIntegrity ==
  (Returned /\ cConfig = DEFAULT_CLEANING_CONFIG)
    => \A k \in GenderKeys :
         /\ \A i \in DOMAIN cResult.data :
              Get(cResult.data[i], OutputName(cConfig, k))
                \in {Str(s_Male), Str(s_Female), Str(s_Unknown)}
         /\ RowsAligned =>
              \A i \in DOMAIN cInput :
                Get(cResult.data[i], OutputName(cConfig, k)) = Str(G(Get(cInput[i], k)))

\* C3: under every config a missing cell of a gender column is returned as the
\* literal 'Unknown'
C3_GenderNonInference ==
  (Returned /\ RowsAligned)
    => \A k \in GenderKeys : \A i \in DOMAIN cInput :
         IsMissing(Get(cInput[i], k))
           => Get(cResult.data[i], OutputName(cConfig, k)) = Str(s_Unknown)

\* the cell of input row i in the column a profile is about
InputCell(i, profile) ==
  IF \E k \in Range(Keys(cInput[i])) : OutputName(cConfig, k) = profile.name
  THEN Get(cInput[i], CHOOSE k \in Range(Keys(cInput[i])) : OutputName(cConfig, k) = profile.name)
  ELSE Undefined
NumericProfiles == { j \in DOMAIN cProfiles : cProfiles[j].dataType = "numeric" }

\* C4: with numericImputation 'mean' and the other options at their defaults,
\* every missing cell of a numeric column with a skewed profile is returned as
\* the median of the column's present values
C4_SkewOverride ==
  (Returned /\ RowsAligned /\ cConfig = ConfigMean)
    => \A j \in NumericProfiles :
         cProfiles[j].stats.isSkewed
           => \A i \in DOMAIN cInput :
                IsMissing(InputCell(i, cProfiles[j]))
                  => Get(cResult.data[i], cProfiles[j].name) = NumC(cProfiles[j].stats.median)

\* [Q1 - t IQR, Q3 + t IQR] of a profile, rounded to 2 decimals
LowerLimit(stats, t2) == RoundDiv(2 * stats.q1 - t2 * stats.iqr, 2)
UpperLimit(stats, t2) == RoundDiv(2 * stats.q3 + t2 * stats.iqr, 2)
\* the input cells of the column that hold a number outside the unrounded bounds
OutsideCells(profile, t2) ==
  { i \in DOMAIN cInput :
      /\ InputCell(i, profile).k = "num"
      /\ \/ 2 * InputCell(i, profile).n < 2 * profile.stats.q1 - t2 * profile.stats.iqr
         \/ 2 * InputCell(i, profile).n > 2 * profile.stats.q3 + t2 * profile.stats.iqr }
\* the number of cells the handle_outliers action reports for a column
ReportedFor(name) ==
  SumSeq([a \in DOMAIN cResult.actions |->
            IF cResult.actions[a].type = "handle_outliers"
            THEN SumSeq([d \in DOMAIN cResult.actions[a].details |->
                           IF cResult.actions[a].details[d].column = name
                           THEN cResult.actions[a].details[d].count ELSE 0])
            ELSE 0])

\* C8: with 'iqr' detection and 'cap' handling, every returned number of a numeric
\* column is within the bounds of the column's profile and the action reports
\* exactly the number of cells that were outside them
C8_OutlierCapping ==
  (Returned /\ cConfig.outlierDetection = "iqr" /\ cConfig.outlierHandling = "cap")
    => \A j \in NumericProfiles :
         /\ \A i \in DOMAIN cResult.data :
              Get(cResult.data[i], cProfiles[j].name).k = "num"
                => /\ Get(cResult.data[i], cProfiles[j].name).n
                        >= LowerLimit(cProfiles[j].stats, cConfig.outlierThreshold2)
                   /\ Get(cResult.data[i], cProfiles[j].name).n
                        <= UpperLimit(cProfiles[j].stats, cConfig.outlierThreshold2)
         /\ ReportedFor(cProfiles[j].name)
              = Cardinality(OutsideCells(cProfiles[j], cConfig.outlierThreshold2))

\* C9: the call on the data of a first call, with the same config, returns no
\* action, zero changes and the same data
C9_IdempotentCleaning ==
  (cpc = "done" /\ cPass = 2)
    => /\ cResult.actions = <<>>
       /\ cResult.summary.totalChanges = 0
       /\ cResult.data = cFirst.data

\* C18: cleanDataAdvanced never changes the caller's input rows: during and
\* after the call every input row has the keys and cell values it had at the
\* call, and originalData in the result equals the input at entry, row by row
\* and cell by cell, for every config and through every step that rewrites
\* rows in place.
C18_InputUnchanged ==
  /\ cpc # "idle" => cCaller = cInput
  /\ cpc = "done" => cResult.originalData = cInput

\* a call that made no new rows (no trimming, no renaming) and wrote into the
\* rows of cleanedData has returned data that differs from its input
C18_Witness ==
  /\ Returned
  /\ ~cConfig.trimWhitespace /\ ~cConfig.standardizeColumnNames
  /\ Len(cResult.data) = Len(cInput)
  /\ cResult.data # cInput
  /\ cResult.actions # <<>>
  /\ cCaller = cInput
  /\ cResult.originalData = cInput

\* C19: with removeDuplicates = true, the data returned by cleanDataAdvanced
\* contains no two rows whose column values are all equal.
C19_NoDuplicateRows ==
  (cpc = "done" /\ cConfig.removeDuplicates) =>
    \A i, j \in DOMAIN cResult.data : i # j => cResult.data[i] # cResult.data[j]

\* the steps' action types in the order of the pipeline
PipelineOrder ==
  <<"trim_whitespace", "rename_columns", "remove_duplicates", "fix_dates", "convert_types",
    "normalize_categorical", "handle_outliers", "handle_missing", "create_derived",
    "validate_ranges", "zero_blank_enforcement">>
PipelineIndex(type) == CHOOSE k \in DOMAIN PipelineOrder : PipelineOrder[k] = type
\* the action types whose step the config switches off
SwitchedOff(config) ==
  {"trim_whitespace" : x \in {1} \ {IF config.trimWhitespace THEN 1 ELSE 0}}
  \cup {"rename_columns" : x \in {1} \ {IF config.standardizeColumnNames THEN 1 ELSE 0}}
  \cup {"remove_duplicates" : x \in {1} \ {IF config.removeDuplicates THEN 1 ELSE 0}}
  \cup {"fix_dates" : x \in {1} \ {IF config.parseDates THEN 1 ELSE 0}}
  \cup {"convert_types" : x \in {1} \ {IF config.autoConvertTypes THEN 1 ELSE 0}}
  \cup {"normalize_categorical" : x \in {1} \ {IF config.normalizeCategorical THEN 1 ELSE 0}}
  \cup {"handle_outliers" : x \in {1} \ {IF HandlesOutliers(config) THEN 1 ELSE 0}}
  \cup {"create_derived" : x \in {1} \ {IF config.createDateParts THEN 1 ELSE 0}}
  \cup {"validate_ranges" : x \in {1} \ {IF config.validateRanges THEN 1 ELSE 0}}
  \cup {"zero_blank_enforcement" : x \in {1} \ {IF config.enforceZeroBlank THEN 1 ELSE 0}}

\* C20: in every result of cleanDataAdvanced the actions list holds each
\* action type at most once and in the fixed order of the pipeline; an action
\* whose step is switched off in the config never appears; and
\* summary.totalChanges is the sum of the counts of the listed actions.
C20_ActionsInPipelineOrder ==
  cpc = "done" =>
    /\ \A a \in DOMAIN cResult.actions : cResult.actions[a].type \in Range(PipelineOrder)
    /\ \A a, b \in DOMAIN cResult.actions :
         a < b => PipelineIndex(cResult.actions[a].type) < PipelineIndex(cResult.actions[b].type)
    /\ \A a \in DOMAIN cResult.actions : cResult.actions[a].type \notin SwitchedOff(cConfig)
    /\ cResult.summary.totalChanges
         = SumSeq([a \in DOMAIN cResult.actions |-> cResult.actions[a].count])

\* a call has returned five or more actions, a duplicate removal among them;
\* and a call whose config switches steps off has returned actions
C20_Witness ==
  /\ Returned
  /\ \/ /\ Len(cResult.actions) >= 5
        /\ \E a \in DOMAIN cResult.actions : cResult.actions[a].type = "remove_duplicates"
        /\ cResult.summary.totalChanges > Len(cResult.actions)
     \/ /\ cConfig = ConfigQuiet
        /\ cResult.actions # <<>>

\* C21: a call that returns an empty actions list returns the input rows: the
\* same rows, with the same columns and the same cell values (every step that
\* rewrites a cell, adds a column or removes a row appends an action).
C21_EveryChangeLogged ==
  (cpc = "done" /\ cInput # <<>> /\ cResult.actions = <<>>) => cResult.data = cInput

\* numericImputation or categoricalImputation is 'remove'
RemoveStrategy(config) ==
  config.numericImputation = "remove" \/ config.categoricalImputation = "remove"
\* the rows no cell of which is missing
WithoutMissing(data) == SelectSeq(data, LAMBDA row : \A j \in DOMAIN row : ~Blank(row[j].val))

\* C22: with numericImputation 'remove' or categoricalImputation 'remove', step 9
\* leaves exactly the rows that had no missing cell when it began: every row
\* with a missing cell in any column is gone, whatever the fill of the column
\* and its classification, and the rows without a missing cell are kept.
C22_RemoveStrategy ==
  [][(cpc = "missing" /\ RemoveStrategy(cConfig)) => cData' = WithoutMissing(cData)]_vars

(***************************************************************************)
(* Claims about interpolateNumeric                                         *)
(***************************************************************************)
Interpolated_ == ppc = "done" /\ pFn = "interpolateNumeric"
KnownBefore(values, i) == {a \in 1..(i - 1) : values[a].ok}
KnownAfter(values, i) == {b \in (i + 1)..Len(values) : values[b].ok}
\* v[s] + (v[e] - v[s]) * (i - s) / (e - s), to the hundredth
Between(values, s, e, i) ==
  values[s].n + RoundDiv((values[e].n - values[s].n) * (i - s), e - s)
\* what the claim gives for index i
InterpolationAt(values, i) ==
  IF values[i].ok THEN values[i].n
  ELSE IF KnownBefore(values, i) = {} /\ KnownAfter(values, i) = {} THEN 0
  ELSE IF KnownBefore(values, i) = {} THEN values[MinOf(KnownAfter(values, i))].n
  ELSE IF KnownAfter(values, i) = {} THEN values[MaxOf(KnownBefore(values, i))].n
  ELSE Between(values, MaxOf(KnownBefore(values, i)), MinOf(KnownAfter(values, i)), i)

\* C23: interpolateNumeric leaves the known values unchanged, fills the leading
\* nulls with the first known value and the trailing nulls with the last known
\* value, fills an interior null at index i between its nearest known
\* neighbours s < i < e with v[s] + (v[e] - v[s]) * (i - s) / (e - s), and
\* returns all zeros for an input of nulls only.
C23_LinearInterpolation ==
  Interpolated_ =>
    /\ Len(pOut) = Len(pArg)
    /\ \A i \in DOMAIN pArg : pOut[i] = InterpolationAt(pArg, i)

(***************************************************************************)
(* Claims about analyzeCategorical                                         *)
(***************************************************************************)
Analyzed == ppc = "done" /\ pFn = "analyzeCategorical"
\* the column after mappings[val] has replaced every val that has an entry
ApplyMappings(mappings, values) ==
  [i \in DOMAIN values |->
     IF values[i] \in DOMAIN mappings THEN mappings[values[i]] ELSE values[i]]
\* the raw values that share the normalized key of val
Cluster(values, val) == {values[i] : i \in {j \in DOMAIN values : LowerAlnum(values[j]) = LowerAlnum(val)}}
\* a spelling that the dictionary of common synonyms rewrites or produces
InDictionary(val) ==
  \E m \in CommonMappings : trim(toLowerCase(val)) \in m.variants \/ val = m.canonical
\* the member of the cluster with the highest frequency, then a capitalised
\* first letter, then the lexical order
ClusterCanonical(values, val) ==
  GroupCanonical(Cluster(values, val), ValueCounts(values, Range(values)))

\* C24: applying analyzeCategorical's normalizedMappings once to the column
\* leaves at most one spelling per normalized key (lowercase, alphanumerics
\* only), which for a cluster outside the dictionary of synonyms is the
\* cluster's canonical form (highest frequency, then capitalised first letter,
\* then lexical order); no mapping target is a mapping source, and applying the
\* mappings a second time changes nothing.
C24_CategoricalConsolidation ==
  Analyzed =>
    LET mappings == pOut.normalizedMappings
        once == ApplyMappings(mappings, pArg)
    IN /\ \A i, j \in DOMAIN once :
            LowerAlnum(once[i]) = LowerAlnum(once[j]) => once[i] = once[j]
       /\ \A i \in DOMAIN pArg :
            (\A v \in Cluster(pArg, pArg[i]) : ~InDictionary(v))
              => once[i] = ClusterCanonical(pArg, pArg[i])
       /\ \A v \in DOMAIN mappings : mappings[v] \notin DOMAIN mappings
       /\ ApplyMappings(mappings, once) = once

\* the columns of the output that were profiled as boolean
BooleanColumns == {cProfiles[p].name : p \in {q \in DOMAIN cProfiles : cProfiles[q].dataType = "boolean"}}

\* C25: under the default config the cells of an output column that was
\* profiled as boolean are all booleans or all strings: no such column holds
\* the string 'Yes' in one row and the boolean false in another.
C25_OneBooleanRepresentation ==
  (Returned /\ cConfig = DEFAULT_CLEANING_CONFIG) =>
    \A col \in BooleanColumns :
      \A i, j \in DOMAIN cResult.data :
        (HasKey(cResult.data[i], col) /\ HasKey(cResult.data[j], col))
          => Get(cResult.data[i], col).k = Get(cResult.data[j], col).k

\* no step that adds a column is enabled
AddsNoColumn(config) == ~config.createDateParts /\ config.outlierHandling # "flag"

\* C27: with standardizeColumnNames and no column-adding step, every output row
\* has as many columns as its input row, with pairwise distinct names (no two
\* input columns are merged into one), standardizing the name of a column a
\* second time returns it unchanged, and when renaming is the only step
\* enabled each column holds the values it held (missing cells apart, which
\* are filled).
C27_RenameKeepsColumns ==
  (Returned /\ cConfig.standardizeColumnNames /\ AddsNoColumn(cConfig) /\ RowsAligned) =>
    /\ \A i \in DOMAIN cInput :
         /\ Len(cResult.data[i]) = Len(cInput[i])
         /\ \A j \in DOMAIN cInput[i] :
              /\ standardizeColumnName(standardizeColumnName(cInput[i][j].key))
                   = standardizeColumnName(cInput[i][j].key)
              /\ (cConfig = ConfigRenameOnly /\ ~Blank(cInput[i][j].val)) =>
                   /\ j \in DOMAIN cResult.data[i]
                   /\ cResult.data[i][j].val = cInput[i][j].val

(***************************************************************************)
(* Claims about cleanWithGroq                                              *)
(***************************************************************************)
\* the places of the trace where a request for batch b was sent
RequestsFor(b) == {p \in DOMAIN gTrace : gTrace[p].kind = "request" /\ gTrace[p].batch = b}
\* an entry of the error log for batch b with this message
Logged(b, error) ==
  \E i \in DOMAIN gErrorLog : gErrorLog[i].batchIndex = b - 1 /\ gErrorLog[i].error = error

\* C29: for each batch at most 4 requests are sent; the k-th retry follows a
\* 429 response to the request before it and a wait of 5000 ms * k; the
\* fourth 429 in a row fails the batch with RATE_LIMIT; another status that
\* is not ok, or content that is no JSON array, fails the batch at once, and
\* no further request is sent for it.
C29_BoundedRetry ==
  \A p \in DOMAIN gTrace :
    LET e == gTrace[p]
        later == {q \in RequestsFor(e.batch) : q > p}
    IN  /\ e.kind = "request" =>
             /\ Cardinality(RequestsFor(e.batch)) <= 4
             /\ e.retry = Cardinality({q \in RequestsFor(e.batch) : q < p})
             /\ e.retry > 0 =>
                  /\ p > 2
                  /\ gTrace[p - 1].kind = "sleep" /\ gTrace[p - 1].ms = 5000 * e.retry
                  /\ gTrace[p - 2].kind = "response" /\ gTrace[p - 2].outcome = "rate_limit"
                  /\ gTrace[p - 2].batch = e.batch
        /\ (e.kind = "response" /\ e.outcome = "rate_limit" /\ e.retry = 3) =>
             later = {} /\ Logged(e.batch, "RATE_LIMIT")
        /\ (e.kind = "response" /\ e.outcome = "rate_limit" /\ e.retry < 3) =>
             ~Logged(e.batch, "RATE_LIMIT") \/ later # {}
        /\ (e.kind = "response" /\ e.outcome = "http_error") =>
             later = {} /\ Logged(e.batch, "Groq API error")
        /\ (e.kind = "response" /\ e.outcome = "not_array") =>
             later = {} /\ Logged(e.batch, "Failed to parse Groq response as JSON")
\* C29 witness: the call has returned, one batch took four requests with
\* waits of 5, 10 and 15 seconds and failed with RATE_LIMIT, and another
\* batch failed on its first response without a retry
C29_RetriesExhausted ==
  /\ gpc = "resolved"
  /\ \E b \in 1..TotalBatches(gData) :
       /\ Cardinality(RequestsFor(b)) = 4
       /\ Logged(b, "RATE_LIMIT")
       /\ \A k \in 1..3 : \E p \in DOMAIN gTrace :
            gTrace[p].kind = "sleep" /\ gTrace[p].batch = b /\ gTrace[p].ms = 5000 * k
  /\ \E b \in 1..TotalBatches(gData) :
       Cardinality(RequestsFor(b)) = 1 /\ Logged(b, "Groq API error")

\* the batches the input splits into, as the claim counts them
CeilBatches == (Len(gData) + 49) \div 50
RowsOf(b) == SubSeq(gData, 50 * (b - 1) + 1, IF 50 * b < Len(gData) THEN 50 * b ELSE Len(gData))
\* batch b got an array back; the array it got
ArrayFor(b) ==
  {p \in DOMAIN gTrace : /\ gTrace[p].kind = "response" /\ gTrace[p].batch = b
                          /\ gTrace[p].outcome \in {"rows", "other_array"}}
BatchSucceeded(b) == ArrayFor(b) # {}
BatchResult(b) ==
  IF \E p \in ArrayFor(b) : gTrace[p].outcome = "rows"
  THEN [j \in DOMAIN RowsOf(b) |-> CleanedRow(RowsOf(b)[j])]
  ELSE <<>>
\* over the batches 1..b: the results of the successful ones in batch order,
\* the number of rows of the failed ones, the failed ones in batch order
RECURSIVE ResultsUpTo(_), FailedRowsUpTo(_), FailedUpTo(_)
ResultsUpTo(b) ==
  IF b = 0 THEN <<>>
  ELSE ResultsUpTo(b - 1) \o (IF BatchSucceeded(b) THEN BatchResult(b) ELSE <<>>)
FailedRowsUpTo(b) ==
  IF b = 0 THEN 0
  ELSE FailedRowsUpTo(b - 1) + (IF BatchSucceeded(b) THEN 0 ELSE Len(RowsOf(b)))
FailedUpTo(b) ==
  IF b = 0 THEN <<>>
  ELSE FailedUpTo(b - 1) \o (IF BatchSucceeded(b) THEN <<>> ELSE <<b>>)
DoneEvents == {i \in DOMAIN gEvents : gEvents[i].phase = "done"}

\* one at a time, in input order, at most 50 rows: the trace never goes back
\* to an earlier batch, a request carries the rows of its batch, and a
\* request is answered before anything else is sent or awaited
OneBatchAtATime ==
  /\ \A p \in DOMAIN gTrace : p < Len(gTrace) => gTrace[p].batch <= gTrace[p + 1].batch
  /\ \A p \in DOMAIN gTrace :
       gTrace[p].kind = "request" =>
         /\ gTrace[p].rows = Len(RowsOf(gTrace[p].batch))
         /\ gTrace[p].rows \in 1..50
         /\ p < Len(gTrace) =>
              gTrace[p + 1].kind = "response" /\ gTrace[p + 1].batch = gTrace[p].batch
\* the value the promise resolves with
ResolvedValue ==
  /\ gResult.totalRows = Len(gData)
  /\ gResult.batchesProcessed = CeilBatches
  /\ gResult.failedRows = FailedRowsUpTo(CeilBatches)
  /\ gResult.data = ResultsUpTo(CeilBatches)
  /\ Len(gResult.errorLog) = Len(FailedUpTo(CeilBatches))
  /\ \A i \in DOMAIN gResult.errorLog :
       /\ gResult.errorLog[i].batchIndex = FailedUpTo(CeilBatches)[i] - 1
       /\ gResult.errorLog[i].rowCount = Len(RowsOf(FailedUpTo(CeilBatches)[i]))
  /\ gKey => \A b \in 1..CeilBatches : RequestsFor(b) # {}
\* exactly one 'done' event, after every other event
OneFinalDone == DoneEvents = {Len(gEvents)} /\ gEvents # <<>>

====
